---- MODULE Spec2Model ----
(***************************************************************************)
(* Model of the side-by-side diff viewer of git-helper (src/diff_viewer.c):*)
(* the text sanitizer, the unified diff parser, the line pairing loop, the *)
(* width utilities and the compositor show_side_by_side_diff.              *)
(*                                                                         *)
(* Text is a sequence of bytes (0..255).  A C buffer is a sequence of      *)
(* bytes; a C pointer into it is a 1-based index, so the C expression      *)
(* "dst - line" is the difference of two indexes.  A box drawing character *)
(* is modelled as one cell holding its code point.                         *)
(***************************************************************************)
EXTENDS Integers, Sequences, FiniteSets, TLC

VARIABLES
    san,          \* sanitize_line: the buffer and the two cursors
    hh,           \* parse_hunk_header: the header line and the parsed hunk
    fit,          \* fit_to_width: source, width and destination
    text,         \* show_side_by_side_diff: the caller's diff text
    settings,     \* show_side_by_side_diff: the display settings (null: no settings)
    ws_col,       \* get_terminal_width: what the ioctl reports (0: it fails)
    heap,         \* the malloc'ed working copies (strdup), by buffer id
    strtok_save,  \* strtok's static save pointer
    ps,           \* one invocation of show_side_by_side_diff
    out,          \* what has been printed to stdout
    thr           \* concurrent invocations of parse_unified_diff, by thread

vars == <<san, hh, fit, text, settings, ws_col, heap, strtok_save, ps, out, thr>>

(***************************************************************************)
(* Bytes the code tests for.                                               *)
(***************************************************************************)
NUL == 0
TAB == 9
LF == 10
CR == 13
ESC == 27
SP == 32
PLUS == 43
COMMA == 44
MINUS == 45
SLASH == 47
DIGIT0 == 48
AT == 64
BACKSLASH == 92
LOWER_A == 97
LOWER_B == 98
LOWER_M == 109
DOT == 46

DIFF_MAX_LINE_LEN == 1024
DIFF_DEFAULT_WIDTH == 120
DIFF_MIN_COLUMN == 40
DIFF_GUTTER_WIDTH == 4
HUNK_HEADER_SIZE == 256
MAX_PATH_LEN == 4096

(***************************************************************************)
(* Bounds of the model.                                                    *)
(***************************************************************************)
MaxSanLen == 4

(***************************************************************************)
(* Sequence helpers.                                                       *)
(***************************************************************************)
Min(a, b) == IF a < b THEN a ELSE b
Max(a, b) == IF a > b THEN a ELSE b

Take(s, n) == SubSeq(s, 1, Min(n, Len(s)))
Drop(s, n) == SubSeq(s, n + 1, Len(s))
Rep(c, n) == [k \in 1..Max(n, 0) |-> c]

SeqsUpTo(S, n) == UNION {[1..k -> S] : k \in 0..n}

\* C's integer division truncates toward zero.
CDiv(a, b) == IF a >= 0 THEN a \div b ELSE -((-a) \div b)

\* The C string that starts at index p of buffer m: the bytes before the
\* first NUL at or after p (to the end of the buffer when there is none).
RECURSIVE StrEnd(_, _)
StrEnd(m, p) == IF p > Len(m) \/ m[p] = NUL THEN p ELSE StrEnd(m, p + 1)

CStr(m, p) == SubSeq(m, p, StrEnd(m, p) - 1)

\* strncmp(s, prefix, Len(prefix)) == 0
StartsWith(s, prefix) ==
    Len(s) >= Len(prefix) /\ SubSeq(s, 1, Len(prefix)) = prefix

(***************************************************************************)
(* sanitize_line (src/diff_viewer.c:179-202).  The line is rewritten in    *)
(* place: src reads, dst writes.  A state is [mem, line, src, dst, st];    *)
(* st is "loop" while the while loop runs, "done" after the terminator is  *)
(* written, "oob" when a write falls outside the allocation.               *)
(***************************************************************************)
SanStart(m, line) == [mem |-> m, line |-> line, src |-> line, dst |-> line, st |-> "loop"]

\* The spaces one tab writes: 4 - ((dst - line) % 4), each written only
\* while (dst - line) < DIFF_MAX_LINE_LEN - 1.
TabSpaces(s) ==
    Min(4 - ((s.dst - s.line) % 4),
        Max(0, (DIFF_MAX_LINE_LEN - 1) - (s.dst - s.line)))

\* Write the bytes bs at dst and advance dst; a write past the end of the
\* allocation is out of bounds.
SanWrite(s, bs) ==
    IF s.dst + Len(bs) - 1 > Len(s.mem)
    THEN [s EXCEPT !.st = "oob"]
    ELSE [s EXCEPT !.mem = [k \in 1..Len(s.mem) |->
                               IF k >= s.dst /\ k < s.dst + Len(bs)
                               THEN bs[k - s.dst + 1] ELSE s.mem[k]],
                   !.dst = s.dst + Len(bs)]

\* A loop body that writes each kept byte lowered by one.
SanEmit_Lowered(s, c) ==
    IF c = TAB THEN Rep(SP, TabSpaces(s))
    ELSE IF c = CR \/ c = LF THEN <<>>
    ELSE IF c >= 32 THEN <<c - 1>>
    ELSE <<>>

\* What the byte c read at src makes the loop body write (lines 186-199).
SanEmit(s, c) ==
    IF c = TAB THEN Rep(SP, TabSpaces(s))
    ELSE IF c = CR \/ c = LF THEN <<>>
    ELSE IF c >= 32 THEN <<c>>   \* *src >= 32 || *src < 0 (high bit set)
    ELSE <<>>

\* One evaluation of the loop condition and, when it holds, the loop body;
\* when it fails, the final *dst = '\0'.
SanIter(s) ==
    IF s.src > Len(s.mem) THEN [s EXCEPT !.st = "oob"]
    ELSE IF s.mem[s.src] = NUL
    THEN LET w == SanWrite(s, <<NUL>>)
         IN  IF w.st = "oob" THEN w ELSE [w EXCEPT !.st = "done", !.dst = s.dst]
    ELSE LET w == SanWrite(s, SanEmit(s, s.mem[s.src]))
         IN  IF w.st = "oob" THEN w ELSE [w EXCEPT !.src = s.src + 1]

\* The loop run to its end.  (The state after an iteration is bound as the
\* element of a one-element set so that it is evaluated once.)
RECURSIVE SanRun(_)
SanRun(s) ==
    IF s.st # "loop" THEN s
    ELSE CHOOSE r \in {SanRun(n) : n \in {SanIter(s)}} : TRUE

\* sanitize_line(line) on buffer m, run to its end.
SanitizeLine(m, line) == SanRun(SanStart(m, line))

(***************************************************************************)
(* An out-of-bounds write is undefined behaviour.  The loop that made it   *)
(* never ends by itself (src only reads bytes dst wrote), so the builds    *)
(* differ only in when the process dies: at the first write outside the    *)
(* allocation, or later after overwriting the neighbouring heap.           *)
(***************************************************************************)
UBOutcomes == {"segv", "heap_smash"}

(***************************************************************************)
(* Specification of sanitize_line alone, one loop iteration per step.      *)
(* The buffer is the one the parser passes: the prefix byte, the content   *)
(* (which sanitize_line gets), its terminator.                              *)
(***************************************************************************)
SanBytes == {TAB, CR, 7, LOWER_A, 200}

(***************************************************************************)
(* The value of each variable in a specification that does not use it.     *)
(***************************************************************************)
NullPtr == [buf |-> 0, pos |-> 0]

\* A char pointer that is NULL, where a string is expected (no byte of a
\* string is negative).
NullText == <<-1>>

IdleSan == san = [run |-> [st |-> "idle"], input |-> <<>>]
IdleHH == hh = [st |-> "idle"]
IdleFit == fit = [st |-> "idle"]
IdleShow ==
    /\ text = <<>>
    /\ settings = [null |-> TRUE]
    /\ ws_col = 0
    /\ ps = [pc |-> "idle"]
    /\ out = <<>>
IdleHeap == heap = <<>> /\ strtok_save = NullPtr
IdleThr == thr = <<>>

SanFrame == UNCHANGED <<hh, fit, text, settings, ws_col, heap, strtok_save, ps, out, thr>>

SanLoop ==
    /\ san.run.st = "loop"
    /\ san.run.mem[san.run.src] # NUL
    /\ LET s == SanIter(san.run)
       IN  \/ /\ s.st = "loop"
              /\ san' = [san EXCEPT !.run = s]
           \/ /\ s.st = "oob"
              /\ \E o \in UBOutcomes : san' = [san EXCEPT !.run = [s EXCEPT !.st = o]]
    /\ SanFrame

SanEnd ==
    /\ san.run.st = "loop"
    /\ san.run.mem[san.run.src] = NUL
    /\ san' = [san EXCEPT !.run = SanIter(san.run)]
    /\ SanFrame

InitSanitize ==
    /\ \E c \in SeqsUpTo(SanBytes, MaxSanLen) :
          san = [run |-> SanStart(<<SP>> \o c \o <<NUL>>, 2), input |-> c]
    /\ IdleHH /\ IdleFit /\ IdleShow /\ IdleHeap /\ IdleThr

NextSanitize == SanLoop \/ SanEnd

SpecSanitize == InitSanitize /\ [][NextSanitize]_vars

(***************************************************************************)
(* The result section 4.1 of the design asks of the sanitizer, computed on *)
(* a plain sequence with a separate output: a tab becomes                  *)
(* 4 - (output column mod 4) spaces, bytes below 32 are dropped, the other *)
(* bytes are copied.                                                       *)
(***************************************************************************)
RECURSIVE SanRef(_, _)
SanRef(in, acc) ==
    IF in = <<>> THEN acc
    ELSE LET c == Head(in)
         IN  SanRef(Tail(in),
                    IF c = TAB THEN acc \o Rep(SP, 4 - (Len(acc) % 4))
                    ELSE IF c >= 32 THEN Append(acc, c)
                    ELSE acc)

SanFinished == san.run.st \in {"done"} \cup UBOutcomes

\* C3: whenever sanitize_line has run on a line, it has returned and the
\* line now holds the reference result (tabs expanded to the next multiple
\* of 4 of the output column, bytes below 32 dropped, the rest copied in
\* order), so the characters after a tab are all in the output.
C3_SanitizeIsReference ==
    SanFinished =>
        /\ san.run.st = "done"
        /\ CStr(san.run.mem, san.run.line) = SanRef(san.input, <<>>)

\* C19: when sanitize_line has returned, running it again on the line it
\* left returns too and leaves that line as it is.
C19_SanitizeIsIdempotent ==
    san.run.st = "done" =>
        LET again == SanitizeLine(san.run.mem, san.run.line)
        IN  /\ again.st = "done"
            /\ CStr(again.mem, again.line) = CStr(san.run.mem, san.run.line)

\* The line "aaa<tab>" has been sanitized to "aaa ": the tab, at output
\* column 3, became one space.
C19_Witness ==
    /\ san.run.st = "done"
    /\ san.input = <<LOWER_A, LOWER_A, LOWER_A, TAB>>
    /\ CStr(san.run.mem, san.run.line) = <<LOWER_A, LOWER_A, LOWER_A, SP>>

\* The index in the buffer of the terminator of the line sanitize_line got.
SanTerminator == san.run.line + Len(san.input)

\* C26: while sanitize_line runs, the write cursor is never ahead of the
\* read cursor, the bytes from the read cursor to the terminator are still
\* those of the input, and the run never writes outside the buffer.
C26_WriteCursorStaysBehind ==
    san.run.st # "idle" =>
        /\ san.run.st \notin UBOutcomes
        /\ san.run.dst <= san.run.src
        /\ san.run.dst <= SanTerminator
        /\ san.run.st = "loop" =>
               SubSeq(san.run.mem, san.run.src, SanTerminator)
                   = SubSeq(san.input \o <<NUL>>, san.run.src - san.run.line + 1,
                            Len(san.input) + 1)

\* The line "<CR><CR>a<tab>" has been sanitized to "a" and three spaces: the
\* tab became three spaces, written over bytes that had been read.
C26_Witness ==
    /\ san.run.st = "done"
    /\ san.input = <<CR, CR, LOWER_A, TAB>>
    /\ CStr(san.run.mem, san.run.line) = <<LOWER_A, SP, SP, SP>>

(***************************************************************************)
(* printf's %d and sscanf's %d.                                            *)
(***************************************************************************)
RECURSIVE FmtNat(_)
FmtNat(n) == IF n < 10 THEN <<DIGIT0 + n>> ELSE Append(FmtNat(n \div 10), DIGIT0 + (n % 10))

FmtInt(n) == IF n < 0 THEN <<MINUS>> \o FmtNat(-n) ELSE FmtNat(n)

\* "%4d": right-aligned in a field of at least 4.
Fmt4d(n) == Rep(SP, 4 - Len(FmtInt(n))) \o FmtInt(n)

IsDigit(c) == c >= DIGIT0 /\ c <= DIGIT0 + 9
IsSpace(c) == c \in {SP, TAB, LF, CR, 11, 12}

At(s, p) == IF p >= 1 /\ p <= Len(s) THEN s[p] ELSE NUL

RECURSIVE SkipSpace(_, _)
SkipSpace(s, p) == IF IsSpace(At(s, p)) THEN SkipSpace(s, p + 1) ELSE p

RECURSIVE ScanDigits(_, _, _)
ScanDigits(s, p, acc) ==
    IF IsDigit(At(s, p)) THEN ScanDigits(s, p + 1, acc * 10 + (At(s, p) - DIGIT0))
    ELSE [val |-> acc, next |-> p]

\* One %d conversion at index p of s: white space is skipped, a sign is
\* accepted, at least one digit is needed.
ScanInt(s, p) ==
    LET q == SkipSpace(s, p)
        neg == At(s, q) = MINUS
        r == IF At(s, q) \in {MINUS, PLUS} THEN q + 1 ELSE q
        d == ScanDigits(s, r, 0)
    IN  IF IsDigit(At(s, r))
        THEN [ok |-> TRUE, val |-> IF neg THEN -d.val ELSE d.val, next |-> d.next]
        ELSE [ok |-> FALSE, val |-> 0, next |-> p]

\* sscanf(s + p, "%d,%d", &a, &b) with a and b holding a0 and b0 before.
Sscanf2(s, p, a0, b0) ==
    LET r1 == ScanInt(s, p)
        r2 == ScanInt(s, r1.next + 1)
    IN  IF ~r1.ok THEN <<a0, b0>>
        ELSE IF At(s, r1.next) # COMMA THEN <<r1.val, b0>>
        ELSE IF ~r2.ok THEN <<r1.val, b0>>
        ELSE <<r1.val, r2.val>>

RECURSIVE SkipSP(_, _)
SkipSP(s, p) == IF At(s, p) = SP THEN SkipSP(s, p + 1) ELSE p

\* strchr(s + p, c): the index of the first c at or after p, 0 when none.
RECURSIVE StrChr(_, _, _)
StrChr(s, p, c) ==
    IF p > Len(s) THEN 0 ELSE IF s[p] = c THEN p ELSE StrChr(s, p + 1, c)

(***************************************************************************)
(* parse_hunk_header (src/diff_viewer.c:211-240) on a zeroed hunk.         *)
(***************************************************************************)
ZeroHunk ==
    [old_start |-> 0, old_count |-> 0, new_start |-> 0, new_count |-> 0,
     header |-> <<>>, lines |-> <<>>]

\* HunkOld with the count's default forgotten (0 instead of 1).
HunkOld_DefaultZero(line, p) ==
    IF At(line, p) = MINUS THEN Sscanf2(line, p + 1, 0, 0) ELSE <<0, 0>>

\* The old side: "-" then "%d,%d", the defaults being 0 and 1.
HunkOld(line, p) ==
    IF At(line, p) = MINUS THEN Sscanf2(line, p + 1, 0, 1) ELSE <<0, 1>>

\* The new side: the first '+' from where the old side began.
HunkNew(line, p) ==
    LET q == StrChr(line, IF At(line, p) = MINUS THEN p + 1 ELSE p, PLUS)
    IN  IF q # 0 THEN Sscanf2(line, q + 1, 0, 1) ELSE <<0, 1>>

ParseHunkHeader(line, hunk) ==
    IF ~StartsWith(line, <<AT, AT>>) THEN [ret |-> FALSE, hunk |-> hunk]
    ELSE LET p == SkipSP(line, 3)
             o == HunkOld(line, p)
             n == HunkNew(line, p)
         IN  [ret |-> TRUE,
              hunk |-> [hunk EXCEPT !.old_start = o[1], !.old_count = o[2],
                                    !.new_start = n[1], !.new_count = n[2],
                                    !.header = Take(line, HUNK_HEADER_SIZE - 1)]]

(***************************************************************************)
(* Specification of parse_hunk_header alone.  A header line is written     *)
(* from its parts: each side is absent, or a start (a number, or text that *)
(* is no number) with a count that is omitted, a number, or no number.     *)
(***************************************************************************)
MaxNum == 10

Junk == <<120>>   \* "x"

HHNums == [k : {"num"}, v : 0..MaxNum]
HHStarts == {[k |-> "junk", v |-> 0]} \cup HHNums
HHCounts == {[k |-> "omitted", v |-> 0], [k |-> "junk", v |-> 0]} \cup HHNums
HHAbsent == [present |-> FALSE, start |-> [k |-> "junk", v |-> 0],
             count |-> [k |-> "omitted", v |-> 0]]
HHSides == {HHAbsent} \cup [present : {TRUE}, start : HHStarts, count : HHCounts]

HHToken(t) == IF t.k = "junk" THEN Junk ELSE FmtInt(t.v)

HHSideText(sign, side) ==
    IF ~side.present THEN <<>>
    ELSE <<SP, sign>> \o HHToken(side.start)
         \o (IF side.count.k = "omitted" THEN <<>> ELSE <<COMMA>> \o HHToken(side.count))

HHLine(old, new) ==
    <<AT, AT>> \o HHSideText(MINUS, old) \o HHSideText(PLUS, new) \o <<SP, AT, AT>>

HHFrame == UNCHANGED <<san, fit, text, settings, ws_col, heap, strtok_save, ps, out, thr>>

HHParse ==
    /\ hh.st = "line"
    /\ LET r == ParseHunkHeader(hh.line, ZeroHunk)
       IN  hh' = [hh EXCEPT !.st = "parsed", !.ret = r.ret, !.hunk = r.hunk]
    /\ HHFrame

InitHunkHeader ==
    /\ \E old \in HHSides, new \in HHSides :
          hh = [st |-> "line", old |-> old, new |-> new, line |-> HHLine(old, new),
                ret |-> FALSE, hunk |-> ZeroHunk]
    /\ IdleSan /\ IdleFit /\ IdleShow /\ IdleHeap /\ IdleThr

NextHunkHeader == HHParse

SpecHunkHeader == InitHunkHeader /\ [][NextHunkHeader]_vars

HHStartOf(side) == IF side.present /\ side.start.k = "num" THEN side.start.v ELSE 0

\* The count as written in the line, whatever precedes it.
HHCountWritten(side) == IF side.present /\ side.count.k = "num" THEN side.count.v ELSE 1

\* The count sscanf can reach: "%d,%d" stops at a start that is no number.
HHCountReached(side) ==
    IF side.present /\ side.start.k = "num" /\ side.count.k = "num"
    THEN side.count.v ELSE 1

\* C8 as stated: on a line beginning "@@", parse_hunk_header returns true,
\* each start is the integer written (0 when it is no number) and each
\* count is the integer written (1 when it is omitted or no number).
C8_HunkHeaderAsStated ==
    hh.st = "parsed" =>
        /\ hh.ret
        /\ hh.hunk.old_start = HHStartOf(hh.old)
        /\ hh.hunk.new_start = HHStartOf(hh.new)
        /\ hh.hunk.old_count = HHCountWritten(hh.old)
        /\ hh.hunk.new_count = HHCountWritten(hh.new)

\* C8 amended: as stated, except that a count is also left at 1 when the
\* start before it is no number (the count is then never read).
C8_HunkHeader ==
    hh.st = "parsed" =>
        /\ hh.ret
        /\ hh.hunk.old_start = HHStartOf(hh.old)
        /\ hh.hunk.new_start = HHStartOf(hh.new)
        /\ hh.hunk.old_count = HHCountReached(hh.old)
        /\ hh.hunk.new_count = HHCountReached(hh.new)
        /\ hh.hunk.header = hh.line

\* "@@ -3,2 +3,4 @@" has been parsed to (3, 2, 3, 4).
C8_Witness ==
    /\ hh.st = "parsed"
    /\ hh.line = <<AT, AT, SP, MINUS, 51, COMMA, 50, SP, PLUS, 51, COMMA, 52, SP, AT, AT>>
    /\ hh.hunk.old_start = 3 /\ hh.hunk.old_count = 2
    /\ hh.hunk.new_start = 3 /\ hh.hunk.new_count = 4

(***************************************************************************)
(* visible_strlen (src/diff_viewer.c:107-124) and fit_to_width (129-174).  *)
(***************************************************************************)
\* The loop of visible_strlen from index p on: [len, esc] at the end.
RECURSIVE VisScan(_, _, _, _)
VisScan(s, p, len, esc) ==
    IF p > Len(s) THEN [len |-> len, esc |-> esc]
    ELSE IF s[p] = ESC THEN VisScan(s, p + 1, len, TRUE)
    ELSE IF esc /\ s[p] = LOWER_M THEN VisScan(s, p + 1, len, FALSE)
    ELSE IF ~esc THEN VisScan(s, p + 1, len + 1, esc)
    ELSE VisScan(s, p + 1, len, esc)

\* A length that counts every byte, escape sequences included.
visible_strlen_AllBytes(s) == IF s = NullText THEN 0 ELSE Len(s)

\* Line 108: a null string measures 0.
visible_strlen(s) == IF s = NullText THEN 0 ELSE VisScan(s, 1, 0, FALSE).len

\* The truncation loop (lines 150-163): the number of bytes copied.  width
\* is a size_t, so for width < 3 the limit width - 3 wraps around and never
\* stops the loop.
RECURSIVE FitCopy(_, _, _, _, _)
FitCopy(src, width, copied, visible, esc) ==
    IF ~(copied < Len(src) /\ (width < 3 \/ visible < width - 3)) THEN copied
    ELSE LET c == src[copied + 1]
             e == esc \/ c = ESC
         IN  IF e /\ c = LOWER_M THEN FitCopy(src, width, copied + 1, visible, FALSE)
             ELSE IF ~e THEN FitCopy(src, width, copied + 1, visible + 1, e)
             ELSE FitCopy(src, width, copied + 1, visible, e)

Ellipsis == <<DOT, DOT, DOT>>

\* The padding loops (lines 141-143, 170-172): one space for each i from
\* the visible length up to the width.
FitPad(dest, visible, width) == dest \o Rep(SP, width - visible)

fit_to_width(src, width) ==
    IF width = 0 THEN <<>>
    ELSE IF visible_strlen(src) <= width
    THEN FitPad(src, visible_strlen(src), width)
    ELSE LET t == Take(src, FitCopy(src, width, 0, 0, FALSE)) \o Ellipsis
         IN  FitPad(t, visible_strlen(t), width)

(***************************************************************************)
(* Specification of fit_to_width alone.                                     *)
(***************************************************************************)
MaxFitLen == 4
MaxFitWidth == 5

FitBytes == {ESC, 91, LOWER_M, LOWER_A}

FitFrame == UNCHANGED <<san, hh, text, settings, ws_col, heap, strtok_save, ps, out, thr>>

Fit ==
    /\ fit.st = "in"
    /\ fit' = [fit EXCEPT !.st = "out", !.dest = fit_to_width(fit.src, fit.width)]
    /\ FitFrame

InitFit ==
    /\ \E s \in SeqsUpTo(FitBytes, MaxFitLen), w \in 0..MaxFitWidth :
          fit = [st |-> "in", src |-> s, width |-> w, dest |-> <<>>]
    /\ IdleSan /\ IdleHH /\ IdleShow /\ IdleHeap /\ IdleThr

NextFit == Fit

SpecFit == InitFit /\ [][NextFit]_vars

(***************************************************************************)
(* Specification of visible_strlen: called on the null pointer, on the     *)
(* example of section 8 of the design, and on every string of up to        *)
(* MaxVisLen bytes out of ESC, '[', 'm' and 'a'.                           *)
(***************************************************************************)
MaxVisLen == 4

\* ESC "[31m" "abc" ESC "[0m"
VisExample == <<ESC, 91, 51, 49, LOWER_M, 97, 98, 99, ESC, 91, 48, LOWER_M>>

VisStrings == SeqsUpTo(FitBytes, MaxVisLen) \cup {VisExample, NullText}

Measure ==
    /\ fit.st = "str"
    /\ fit' = [fit EXCEPT !.st = "len", !.len = visible_strlen(fit.str)]
    /\ FitFrame

InitVisible ==
    /\ \E s \in VisStrings : fit = [st |-> "str", str |-> s, len |-> 0]
    /\ IdleSan /\ IdleHH /\ IdleShow /\ IdleHeap /\ IdleThr

NextVisible == Measure

SpecVisible == InitVisible /\ [][NextVisible]_vars

\* The byte at index i of s lies inside an escape sequence: an ESC at or
\* before i has no 'm' between itself and i (the ESC and the 'm' that ends
\* the sequence are inside).
InEscape(s, i) ==
    \E j \in 1..i : s[j] = ESC /\ \A k \in (j + 1)..(i - 1) : s[k] # LOWER_M

\* C18: visible_strlen returns the number of bytes of the string outside
\* escape sequences; the example measures 3 and the null string 0.
C18_VisibleLength ==
    fit.st = "len" =>
        /\ fit.str # NullText =>
               fit.len = Cardinality({i \in 1..Len(fit.str) : ~InEscape(fit.str, i)})
        /\ fit.str = VisExample => fit.len = 3
        /\ fit.str = NullText => fit.len = 0

\* The example has been measured.
C18_Witness == fit.st = "len" /\ fit.str = VisExample /\ fit.len = 3

\* C6: for every source string and every width W >= 3, the string
\* fit_to_width writes has visible length exactly W.
C6_FitIsExactWidth ==
    (fit.st = "out" /\ fit.width >= 3) => visible_strlen(fit.dest) = fit.width

(***************************************************************************)
(* The heap and strtok.  heap[b] is the b-th allocation: its bytes and     *)
(* whether it has been freed.  A pointer is [buf, pos]; NullPtr is NULL.   *)
(* strtok keeps one static save pointer for the whole process.             *)
(***************************************************************************)
RECURSIVE SkipLF(_, _)
SkipLF(m, p) == IF At(m, p) = LF THEN SkipLF(m, p + 1) ELSE p

RECURSIVE TokEnd(_, _)
TokEnd(m, p) == IF At(m, p) \in {LF, NUL} THEN p ELSE TokEnd(m, p + 1)

\* strtok(m + from, "\n"): delimiters are skipped, the token runs to the
\* next delimiter, which is overwritten by NUL; save is where the next call
\* resumes.  tok = 0 is the NULL return.
Strtok(m, from) ==
    LET s == SkipLF(m, from)
        e == TokEnd(m, s)
    IN  IF At(m, s) = NUL THEN [tok |-> 0, mem |-> m, save |-> s]
        ELSE IF At(m, e) = NUL THEN [tok |-> s, mem |-> m, save |-> e]
        ELSE [tok |-> s, mem |-> [m EXCEPT ![e] = NUL], save |-> e + 1]

(***************************************************************************)
(* parse_unified_diff (src/diff_viewer.c:281-386).                          *)
(***************************************************************************)
ZeroLine ==
    [type |-> "CONTEXT", left_num |-> 0, right_num |-> 0,
     left_content |-> <<>>, right_content |-> <<>>]

ZeroDiff ==
    [old_path |-> <<>>, new_path |-> <<>>, is_renamed |-> FALSE,
     hunks |-> <<>>, additions |-> 0, deletions |-> 0]

S_DIFF_GIT == <<100, 105, 102, 102, 32, 45, 45, 103, 105, 116>>
S_INDEX == <<105, 110, 100, 101, 120, 32>>
S_MINUS3 == <<MINUS, MINUS, MINUS>>
S_PLUS3 == <<PLUS, PLUS, PLUS>>
S_AT2 == <<AT, AT>>

\* Lines 316-320 and 323-327: the path after the 4 byte marker, without a
\* leading "a/" (c = 'a') or "b/" (c = 'b'), copied by strncpy.
PathOf(L, c) ==
    LET path == Drop(L, 4)
    IN  Take(IF Len(path) >= 2 /\ path[1] = c /\ path[2] = SLASH THEN Drop(path, 2) ELSE path,
             MAX_PATH_LEN - 1)

\* strncpy(dl.x_content, content, sizeof(dl.x_content) - 1)
RowText(content) == Take(content, DIFF_MAX_LINE_LEN - 1)

\* A row whose Context line has its text on the left side only.
MkRow_ContextLeftOnly(prefix, content, left_num, right_num) ==
    IF prefix = MINUS
    THEN [type |-> "REMOVED", left_num |-> left_num, right_num |-> -1,
          left_content |-> RowText(content), right_content |-> <<>>]
    ELSE IF prefix = PLUS
    THEN [type |-> "ADDED", left_num |-> -1, right_num |-> right_num,
          left_content |-> <<>>, right_content |-> RowText(content)]
    ELSE IF prefix = SP
    THEN [type |-> "CONTEXT", left_num |-> left_num, right_num |-> right_num,
          left_content |-> RowText(content), right_content |-> <<>>]
    ELSE ZeroLine

\* Lines 351-374: the diff_line_t built from a content line.
MkRow(prefix, content, left_num, right_num) ==
    IF prefix = MINUS
    THEN [type |-> "REMOVED", left_num |-> left_num, right_num |-> -1,
          left_content |-> RowText(content), right_content |-> <<>>]
    ELSE IF prefix = PLUS
    THEN [type |-> "ADDED", left_num |-> -1, right_num |-> right_num,
          left_content |-> <<>>, right_content |-> RowText(content)]
    ELSE IF prefix = SP
    THEN [type |-> "CONTEXT", left_num |-> left_num, right_num |-> right_num,
          left_content |-> RowText(content), right_content |-> RowText(content)]
    ELSE IF prefix = BACKSLASH
    THEN [ZeroLine EXCEPT !.left_content = RowText(content),
                          !.right_content = RowText(content)]
    ELSE ZeroLine

\* Line 376: if (dl.type != 0 || prefix == ' ') hunk_add_line(...)
RowIsAdded(prefix, dl) == dl.type # "CONTEXT" \/ prefix = SP

\* hunk_add_line (lines 245-257) on the current hunk, the last of the diff.
HunkAddLine(diff, dl) ==
    [diff EXCEPT !.hunks[Len(diff.hunks)].lines = Append(@, dl)]

\* Lines 328-344: a "@@" line appends a zeroed hunk, parses the header into
\* it and resets the running line numbers.
ParseHunkLine(inv, L) ==
    LET hunk == ParseHunkHeader(L, ZeroHunk).hunk
    IN  [inv EXCEPT !.diff.hunks = Append(@, hunk),
                    !.left_num = hunk.old_start,
                    !.right_num = hunk.new_start]

\* Lines 345-378: a content line of the current hunk whose content (the
\* line after its prefix byte) sanitize_line has rewritten to content.
ParseContentLine(inv, prefix, content) ==
    LET dl == MkRow(prefix, content, inv.left_num, inv.right_num)
        d1 == IF RowIsAdded(prefix, dl) THEN HunkAddLine(inv.diff, dl) ELSE inv.diff
    IN  [inv EXCEPT
            !.diff = [d1 EXCEPT !.deletions = IF prefix = MINUS THEN @ + 1 ELSE @,
                                !.additions = IF prefix = PLUS THEN @ + 1 ELSE @],
            !.left_num = IF prefix \in {MINUS, SP} THEN @ + 1 ELSE @,
            !.right_num = IF prefix \in {PLUS, SP} THEN @ + 1 ELSE @]

\* Which branch of lines 311-379 the line L takes.
LineKind(inv, L) ==
    IF StartsWith(L, S_DIFF_GIT) \/ StartsWith(L, S_INDEX) THEN "skip"
    ELSE IF StartsWith(L, S_MINUS3) THEN "old_path"
    ELSE IF StartsWith(L, S_PLUS3) THEN "new_path"
    ELSE IF StartsWith(L, S_AT2) THEN "hunk"
    ELSE IF inv.diff.hunks # <<>> THEN "content"   \* current_hunk != NULL
    ELSE "ignored"

\* The body of the while loop (lines 309-379) for the line at inv.line.
\* The result is [inv, heap, ub]: ub is "oob" when sanitize_line wrote
\* outside the working copy, and then nothing else of the result counts.
\* (The line L and the outcome s of sanitize_line on its content are bound
\* as elements of one-element sets so that each is evaluated once.)
ParseBody(inv, hp) ==
    LET m == hp[inv.line.buf].bytes
    IN  CHOOSE r \in
            {LET kind == LineKind(inv, L)
             IN  IF kind = "old_path"
                 THEN [inv |-> IF Len(L) > 4 THEN [inv EXCEPT !.diff.old_path = PathOf(L, LOWER_A)] ELSE inv,
                       heap |-> hp, ub |-> "none"]
                 ELSE IF kind = "new_path"
                 THEN [inv |-> IF Len(L) > 4 THEN [inv EXCEPT !.diff.new_path = PathOf(L, LOWER_B)] ELSE inv,
                       heap |-> hp, ub |-> "none"]
                 ELSE IF kind = "hunk"
                 THEN [inv |-> ParseHunkLine(inv, L), heap |-> hp, ub |-> "none"]
                 ELSE IF kind = "content"
                 THEN IF s.st = "oob"
                      THEN [inv |-> inv, heap |-> hp, ub |-> "oob"]
                      ELSE [inv |-> ParseContentLine(inv, At(L, 1), CStr(s.mem, inv.line.pos + 1)),
                            heap |-> [hp EXCEPT ![inv.line.buf].bytes = s.mem],
                            ub |-> "none"]
                 ELSE [inv |-> inv, heap |-> hp, ub |-> "none"]
             : L \in {CStr(m, inv.line.pos)}, s \in {SanitizeLine(m, inv.line.pos + 1)}} : TRUE

\* strtok(str, "\n") with str = ptr, or strtok(NULL, "\n") with ptr the
\* static save pointer: [line, heap, save].
StrtokCall(hp, ptr) ==
    LET t == Strtok(hp[ptr.buf].bytes, ptr.pos)
    IN  [line |-> IF t.tok = 0 THEN NullPtr ELSE [buf |-> ptr.buf, pos |-> t.tok],
         heap |-> [hp EXCEPT ![ptr.buf].bytes = t.mem],
         save |-> [buf |-> ptr.buf, pos |-> t.save]]

\* Lines 286-307: the FileDiff, the working copy (strdup) and the first
\* strtok.  [inv, heap, save]
ParseBegin(inv, hp, txt) ==
    LET b == Len(hp) + 1
        h1 == Append(hp, [bytes |-> txt \o <<NUL>>, freed |-> FALSE])
        t == StrtokCall(h1, [buf |-> b, pos |-> 1])
    IN  [inv |-> [inv EXCEPT !.diff = ZeroDiff, !.copy = b, !.line = t.line,
                             !.left_num = 0, !.right_num = 0],
         heap |-> t.heap, save |-> t.save]

\* One iteration of the while loop: the body, then line = strtok(NULL, "\n")
\* from the static save pointer.  [inv, heap, save, ub]; ub is "uaf" when a
\* buffer read or written here has been freed.
ParseIter(inv, hp, sv) ==
    CHOOSE res \in
        {LET t == StrtokCall(r.heap, sv)
         IN  IF r.ub # "none"
             THEN [inv |-> inv, heap |-> hp, save |-> sv, ub |-> r.ub]
             ELSE [inv |-> [r.inv EXCEPT !.line = t.line], heap |-> t.heap, save |-> t.save,
                   ub |-> IF hp[inv.line.buf].freed \/ hp[sv.buf].freed THEN "uaf" ELSE "none"]
         : r \in {ParseBody(inv, hp)}} : TRUE

\* Line 289: the hunk array starts with room for 8 hunks.  Line 249: a
\* hunk's line array starts empty and gets room for 32 rows at its first row.
HUNK_CAPACITY_INIT == 8
LINE_CAPACITY_INIT == 32

\* The capacity reached by doubling from c that holds n entries.
RECURSIVE Doubled(_, _)
Doubled(c, n) == IF n <= c THEN c ELSE Doubled(2 * c, n)

\* diff->hunk_capacity when the array holds hunk_count hunks (lines 289, 331).
HunkCapacity(hunk_count) == Doubled(HUNK_CAPACITY_INIT, hunk_count)

\* hunk->line_capacity when the hunk holds line_count rows (lines 249, 339).
LineCapacity(line_count) ==
    IF line_count = 0 THEN 0 ELSE Doubled(LINE_CAPACITY_INIT, line_count)

\* Whether the body of the loop calls realloc for the line at inv.line: a
\* "@@" line with the hunk array full (line 330), or a content line whose
\* row is appended with the hunk's line array full (line 248).
ReallocCalled(inv, hp) ==
    LET m == hp[inv.line.buf].bytes
    IN  \E L \in {CStr(m, inv.line.pos)}, s \in {SanitizeLine(m, inv.line.pos + 1)} :
            LET kind == LineKind(inv, L)
                dl == MkRow(At(L, 1), CStr(s.mem, inv.line.pos + 1), inv.left_num, inv.right_num)
                line_count == Len(inv.diff.hunks[Len(inv.diff.hunks)].lines)
            IN  IF kind = "hunk"
                THEN Len(inv.diff.hunks) >= HunkCapacity(Len(inv.diff.hunks))
                ELSE /\ kind = "content"
                     /\ s.st # "oob"
                     /\ RowIsAdded(At(L, 1), dl)
                     /\ line_count >= LineCapacity(line_count)

\* Lines 345-378 when the realloc of hunk_add_line returns NULL (line 251):
\* the counters and the running numbers have moved, the row is not stored.
ParseContentLineNoMemory(inv, prefix, content) ==
    [ParseContentLine(inv, prefix, content) EXCEPT !.diff.hunks = inv.diff.hunks]

\* One iteration of the while loop in which realloc returns NULL.  For a
\* "@@" line the loop is left by break (line 333): no further line is read,
\* which the NULL line stands for.  For a content line the row is dropped
\* and the loop goes on.  [inv, heap, save]
ParseIterNoMemory(inv, hp, sv) ==
    LET m == hp[inv.line.buf].bytes
    IN  CHOOSE r \in
            {LET h1 == [hp EXCEPT ![inv.line.buf].bytes = s.mem]
                 t == StrtokCall(h1, sv)
             IN  IF LineKind(inv, L) = "hunk"
                 THEN [inv |-> [inv EXCEPT !.line = NullPtr], heap |-> hp, save |-> sv]
                 ELSE [inv |-> [ParseContentLineNoMemory(inv, At(L, 1), CStr(s.mem, inv.line.pos + 1))
                                   EXCEPT !.line = t.line],
                       heap |-> t.heap, save |-> t.save]
             : L \in {CStr(m, inv.line.pos)}, s \in {SanitizeLine(m, inv.line.pos + 1)}} : TRUE

\* Line 384: free(text_copy)
ParseFree(inv, hp) == [hp EXCEPT ![inv.copy].freed = TRUE]

\* parse_unified_diff run alone on txt: whether it returns, and the FileDiff
\* it returns.
RECURSIVE ParseLoop(_, _, _)
ParseLoop(inv, hp, sv) ==
    IF inv.line = NullPtr THEN [returns |-> TRUE, diff |-> inv.diff]
    ELSE CHOOSE d \in {IF r.ub # "none" THEN [returns |-> FALSE, diff |-> ZeroDiff]
                       ELSE ParseLoop(r.inv, r.heap, r.save) :
                       r \in {ParseIter(inv, hp, sv)}} : TRUE

ZeroInv ==
    [pc |-> "start", copy |-> 0, line |-> NullPtr, diff |-> ZeroDiff,
     left_num |-> 0, right_num |-> 0, text |-> <<>>]

ParseAlone(txt) ==
    LET b == ParseBegin(ZeroInv, <<>>, txt)
    IN  ParseLoop(b.inv, b.heap, b.save)

(***************************************************************************)
(* Rendering (src/diff_viewer.c:395-520).  Printed text is a sequence of   *)
(* cells: bytes, and the code points of the box drawing characters.        *)
(***************************************************************************)
DIFF_COLOR_RESET == <<27, 91, 48, 109>>
DIFF_COLOR_HEADER == <<27, 91, 49, 59, 51, 54, 109>>
DIFF_COLOR_HUNK == <<27, 91, 51, 54, 109>>
DIFF_COLOR_ADD_FG == <<27, 91, 51, 50, 109>>
DIFF_COLOR_DEL_FG == <<27, 91, 51, 49, 109>>
DIFF_COLOR_LINE_NUM == <<27, 91, 57, 48, 109>>
DIFF_COLOR_SEPARATOR == <<27, 91, 57, 48, 109>>
DIFF_COLOR_EMPTY_BG == <<27, 91, 49, 48, 48, 109>>
COLOR_CYAN == <<27, 91, 51, 54, 109>>

BOX_DOUBLE == 9552     \* the double horizontal rule of lines 400 and 642
BOX_LIGHT == 9472      \* the light horizontal rule of lines 420, 514, 516
BOX_VERTICAL == 9474   \* the vertical bar of the separator, line 479
ARROW == 8594          \* the arrow of line 407

S_FILE == <<32, 32, 70, 105, 108, 101, 58, 32>>
S_INFO == <<91, 73, 78, 70, 79, 93, 32, 78, 111, 32, 100, 105, 102, 102, 101, 114, 101, 110, 99, 101, 115, 32, 116, 111, 32, 100, 105, 115, 112, 108, 97, 121>>

\* PRINT_INFO("No differences to display") (line 527)
PrintInfo == COLOR_CYAN \o S_INFO \o DIFF_COLOR_RESET \o <<LF>>

\* print_diff_header (lines 395-422)
print_diff_header(diff, width) ==
    <<LF>>
    \o DIFF_COLOR_HEADER \o Rep(BOX_DOUBLE, width) \o DIFF_COLOR_RESET \o <<LF>>
    \o DIFF_COLOR_HEADER \o S_FILE \o DIFF_COLOR_RESET
    \o (IF diff.is_renamed \/ diff.old_path # diff.new_path
        THEN DIFF_COLOR_DEL_FG \o diff.old_path \o DIFF_COLOR_RESET \o <<SP, ARROW, SP>>
             \o DIFF_COLOR_ADD_FG \o diff.new_path \o DIFF_COLOR_RESET
        ELSE diff.new_path)
    \o <<SP, SP>>
    \o DIFF_COLOR_ADD_FG \o <<PLUS>> \o FmtInt(diff.additions) \o DIFF_COLOR_RESET \o <<SP>>
    \o DIFF_COLOR_DEL_FG \o <<MINUS>> \o FmtInt(diff.deletions) \o DIFF_COLOR_RESET
    \o <<LF>>
    \o DIFF_COLOR_HEADER \o Rep(BOX_LIGHT, width) \o DIFF_COLOR_RESET \o <<LF>>

\* Lines 435-436
ContentWidth(col_width, show_line_nums) ==
    col_width - (IF show_line_nums THEN DIFF_GUTTER_WIDTH ELSE 0) - 1

\* Lines 438-456: left_buf, filled only for a Removed or a Context row.
LeftBuf(line, content_width) ==
    IF line.type \in {"REMOVED", "CONTEXT"}
    THEN fit_to_width(line.left_content, content_width) ELSE <<>>

\* Lines 438-456: right_buf, filled only for an Added or a Context row.
RightBuf(line, content_width) ==
    IF line.type \in {"ADDED", "CONTEXT"}
    THEN fit_to_width(line.right_content, content_width) ELSE <<>>

\* Lines 429-430: left_buf and right_buf are arrays of DIFF_MAX_LINE_LEN * 2
\* bytes each.
PaneBufSize == DIFF_MAX_LINE_LEN * 2

\* A write past the end of a pane buffer is undefined behaviour: the
\* process dies at the write, or it goes on with the bytes next to the
\* buffer overwritten, and what it prints from then on is not determined by
\* the source.  The model follows the program no further in either case.
PaneOutcomes == {"segv", "stack_smash"}

\* fit_to_width writes a string and its terminator into the pane buffer
\* without a bound: a string of PaneBufSize bytes or more does not fit.
RowOverflows(line, col_width, show_line_nums) ==
    LET cw == ContentWidth(col_width, show_line_nums)
    IN  \/ Len(LeftBuf(line, cw)) + 1 > PaneBufSize
        \/ Len(RightBuf(line, cw)) + 1 > PaneBufSize

\* A gutter that prints every number, positive or not.
Gutter_AnyNumber(num, show_line_nums) ==
    IF ~show_line_nums THEN <<>>
    ELSE DIFF_COLOR_LINE_NUM \o Fmt4d(num) \o DIFF_COLOR_RESET

\* Lines 459-465 and 482-488: the line-number gutter of one side.
Gutter(num, show_line_nums) ==
    IF ~show_line_nums THEN <<>>
    ELSE IF num > 0 THEN DIFF_COLOR_LINE_NUM \o Fmt4d(num) \o DIFF_COLOR_RESET
    ELSE Rep(SP, 4)

\* Lines 471-473 and 494-496: the blank pane of the absent side.
EmptyPane(content_width, use_colors) ==
    (IF use_colors THEN DIFF_COLOR_EMPTY_BG ELSE <<>>)
    \o Rep(SP, content_width + 1)
    \o (IF use_colors THEN DIFF_COLOR_RESET ELSE <<>>)

\* Lines 467-476: the left pane.
LeftPane(line, content_width, use_colors) ==
    LET reset == IF use_colors THEN DIFF_COLOR_RESET ELSE <<>>
    IN  IF line.type = "REMOVED"
        THEN (IF use_colors THEN DIFF_COLOR_DEL_FG ELSE <<>>) \o <<MINUS>>
             \o LeftBuf(line, content_width) \o reset
        ELSE IF line.type = "ADDED" THEN EmptyPane(content_width, use_colors)
        ELSE <<SP>> \o LeftBuf(line, content_width) \o reset

\* Lines 490-499: the right pane.
RightPane(line, content_width, use_colors) ==
    LET reset == IF use_colors THEN DIFF_COLOR_RESET ELSE <<>>
    IN  IF line.type = "ADDED"
        THEN (IF use_colors THEN DIFF_COLOR_ADD_FG ELSE <<>>) \o <<PLUS>>
             \o RightBuf(line, content_width) \o reset
        ELSE IF line.type = "REMOVED" THEN EmptyPane(content_width, use_colors)
        ELSE <<SP>> \o RightBuf(line, content_width) \o reset

\* Line 479
Separator == DIFF_COLOR_SEPARATOR \o <<SP, BOX_VERTICAL, SP>> \o DIFF_COLOR_RESET

\* print_side_by_side_line (lines 427-502)
print_side_by_side_line(line, col_width, show_line_nums, use_colors) ==
    LET cw == ContentWidth(col_width, show_line_nums)
    IN  Gutter(line.left_num, show_line_nums)
        \o LeftPane(line, cw, use_colors)
        \o Separator
        \o Gutter(line.right_num, show_line_nums)
        \o RightPane(line, cw, use_colors)
        \o <<LF>>

\* A banner with all its rule cells after the marker.
print_hunk_header_RuleAfter(hunk, width, use_colors) ==
    (IF use_colors THEN DIFF_COLOR_HUNK ELSE <<>>)
    \o <<SP>> \o hunk.header \o <<SP>>
    \o Rep(BOX_LIGHT, width - Len(hunk.header) - 2)
    \o (IF use_colors THEN DIFF_COLOR_RESET ELSE <<>>)
    \o <<LF>>

\* print_hunk_header (lines 507-520)
print_hunk_header(hunk, width, use_colors) ==
    LET header_len == Len(hunk.header)
        padding == CDiv(width - header_len, 2)
    IN  (IF use_colors THEN DIFF_COLOR_HUNK ELSE <<>>)
        \o Rep(BOX_LIGHT, padding)
        \o <<SP>> \o hunk.header \o <<SP>>
        \o Rep(BOX_LIGHT, width - padding - header_len - 2)
        \o (IF use_colors THEN DIFF_COLOR_RESET ELSE <<>>)
        \o <<LF>>

\* Lines 641-643
PrintFooter(width) ==
    DIFF_COLOR_HEADER \o Rep(BOX_DOUBLE, width) \o DIFF_COLOR_RESET \o <<LF, LF>>

(***************************************************************************)
(* show_side_by_side_diff (src/diff_viewer.c:525-646).                      *)
(***************************************************************************)
\* Lines 532-543
DefaultSettings ==
    [null |-> FALSE, use_colors |-> TRUE, terminal_width |-> 120, show_line_numbers |-> TRUE]

\* The settings pointer NULL.
NullSettings ==
    [null |-> TRUE, use_colors |-> FALSE, terminal_width |-> 0, show_line_numbers |-> FALSE]

Settings == IF settings.null THEN DefaultSettings ELSE settings

\* get_terminal_width (lines 96-102)
get_terminal_width == IF ws_col > 0 THEN ws_col ELSE DIFF_DEFAULT_WIDTH

\* A width that takes every positive configured value, smaller or not.
TermWidth_AnyConfigured ==
    IF Settings.terminal_width > 0 THEN Settings.terminal_width ELSE get_terminal_width

\* Lines 546-549
TermWidth ==
    IF Settings.terminal_width > 0 /\ Settings.terminal_width < get_terminal_width
    THEN Settings.terminal_width ELSE get_terminal_width

\* A column width without the minimum.
ColWidth_NoMinimum(term_width) == CDiv(term_width - 3, 2)

\* Lines 552-555
ColWidth(term_width) == Max(CDiv(term_width - 3, 2), DIFF_MIN_COLUMN)

\* A pairing that stops at the shorter of the two runs.
NumPairs_Min(num_removed, num_added) ==
    IF num_removed < num_added THEN num_removed ELSE num_added

\* Lines 597-599
NumPairs(num_removed, num_added) ==
    IF num_removed > num_added THEN num_removed ELSE num_added

\* A look-ahead that stops at once: no run is ever longer than its first row.
RunEnd_NoRun(lines, j, t) == j

\* Lines 581-584 and 592-595: the first index from j on whose row is not of
\* type t (line_count + 1 when there is none).
RECURSIVE RunEnd(_, _, _)
RunEnd(lines, j, t) ==
    IF j <= Len(lines) /\ lines[j].type = t THEN RunEnd(lines, j + 1, t) ELSE j

\* A combined row whose type is that of the side filled last: a row with
\* both sides is typed as Added.
Combined_LastSideType(lines, removed_start, num_removed, added_start, num_added, p) ==
    LET c1 == IF p < num_removed
              THEN [ZeroLine EXCEPT !.type = "REMOVED",
                                    !.left_num = lines[removed_start + p].left_num,
                                    !.left_content = RowText(lines[removed_start + p].left_content)]
              ELSE ZeroLine
    IN  IF p < num_added
        THEN [c1 EXCEPT !.type = "ADDED",
                        !.right_num = lines[added_start + p].right_num,
                        !.right_content = RowText(lines[added_start + p].right_content)]
        ELSE c1

\* Lines 602-622: the p-th combined row (p counted from 0) of a group whose
\* Removed rows start at removed_start and Added rows at added_start.
Combined(lines, removed_start, num_removed, added_start, num_added, p) ==
    LET c1 == IF p < num_removed
              THEN [ZeroLine EXCEPT !.type = "REMOVED",
                                    !.left_num = lines[removed_start + p].left_num,
                                    !.left_content = RowText(lines[removed_start + p].left_content)]
              ELSE ZeroLine
    IN  IF p < num_added
        THEN [c1 EXCEPT !.type = IF c1.type = "REMOVED" THEN "MODIFIED" ELSE "ADDED",
                        !.right_num = lines[added_start + p].right_num,
                        !.right_content = RowText(lines[added_start + p].right_content)]
        ELSE c1

\* One printed block: what it is, its text, and for a row the diff_line_t
\* that was passed to print_side_by_side_line.
Item(k, b, line) == [k |-> k, b |-> b, line |-> line]

RowItem(line, col_width) ==
    Item("row",
         print_side_by_side_line(line, col_width, Settings.show_line_numbers, Settings.use_colors),
         line)

\* The rows of one group printed from the last pair to the first.
GroupRows_LastFirst(lines, i, col_width) ==
    LET removed_end == RunEnd(lines, i + 1, "REMOVED")
        added_end == RunEnd(lines, removed_end, "ADDED")
        num_removed == removed_end - i
        num_added == added_end - removed_end
        pairs == NumPairs(num_removed, num_added)
    IN  [p \in 1..pairs |->
            RowItem(Combined(lines, i, num_removed, removed_end, num_added, pairs - p), col_width)]

\* Lines 601-627: the rows printed for one group.
GroupRows(lines, i, col_width) ==
    LET removed_end == RunEnd(lines, i + 1, "REMOVED")
        added_end == RunEnd(lines, removed_end, "ADDED")
        num_removed == removed_end - i
        num_added == added_end - removed_end
    IN  [p \in 1..NumPairs(num_removed, num_added) |->
            RowItem(Combined(lines, i, num_removed, removed_end, num_added, p - 1), col_width)]

ShowFrame == UNCHANGED <<san, hh, fit, text, settings, ws_col, thr>>

\* A test that lets only the null pointer through, not the empty string.
NothingToDisplay_NullOnly(diff_text) == diff_text = NullText

\* Lines 526 and 282: diff_text == NULL || strlen(diff_text) == 0
NothingToDisplay(diff_text) == diff_text = NullText \/ Len(diff_text) = 0

\* Lines 526-529: nothing to display.
ShowEmpty ==
    /\ ps.pc = "start"
    /\ NothingToDisplay(text)
    /\ out' = Append(out, Item("info", PrintInfo, ZeroLine))
    /\ ps' = [ps EXCEPT !.pc = "done"]
    /\ UNCHANGED <<heap, strtok_save>>
    /\ ShowFrame

\* Lines 546-558 and 286-307: the widths, then parse_unified_diff up to its
\* first strtok.
ShowParseBegin ==
    /\ ps.pc = "start"
    /\ ~NothingToDisplay(text)
    /\ \E r \in {ParseBegin(ps, heap, text)} :
           /\ ps' = [r.inv EXCEPT !.pc = "parse", !.term_width = TermWidth,
                                  !.col_width = ColWidth(TermWidth)]
           /\ heap' = r.heap
           /\ strtok_save' = r.save
    /\ UNCHANGED out
    /\ ShowFrame

\* Lines 286-302: calloc or strdup fails and parse_unified_diff returns NULL.
ShowParseNoMemory ==
    /\ ps.pc = "start"
    /\ ~NothingToDisplay(text)
    /\ ps' = [ps EXCEPT !.pc = "parsed", !.term_width = TermWidth,
                        !.col_width = ColWidth(TermWidth), !.returned = "NULL"]
    /\ UNCHANGED <<heap, strtok_save, out>>
    /\ ShowFrame

\* Lines 308-382: one iteration of the parse loop.
ShowParseLine ==
    /\ ps.pc = "parse"
    /\ ps.line # NullPtr
    /\ \E r \in {ParseIter(ps, heap, strtok_save)} :
           \/ /\ r.ub = "none"
              /\ ps' = r.inv
              /\ heap' = r.heap
              /\ strtok_save' = r.save
           \/ /\ r.ub = "oob"
              /\ \E o \in UBOutcomes : ps' = [ps EXCEPT !.pc = o]
              /\ UNCHANGED <<heap, strtok_save>>
    /\ UNCHANGED out
    /\ ShowFrame

\* Lines 248-251 and 330-333: an iteration of the parse loop whose realloc
\* returns NULL.
ShowParseLineNoMemory ==
    /\ ps.pc = "parse"
    /\ ps.line # NullPtr
    /\ ReallocCalled(ps, heap)
    /\ \E r \in {ParseIterNoMemory(ps, heap, strtok_save)} :
           /\ ps' = r.inv
           /\ heap' = r.heap
           /\ strtok_save' = r.save
    /\ UNCHANGED out
    /\ ShowFrame

\* Lines 384-385: the loop has ended; free the copy and return the diff.
ShowParseEnd ==
    /\ ps.pc = "parse"
    /\ ps.line = NullPtr
    /\ heap' = ParseFree(ps, heap)
    /\ ps' = [ps EXCEPT !.pc = "parsed", !.returned = "diff"]
    /\ UNCHANGED <<strtok_save, out>>
    /\ ShowFrame

\* Lines 559-563: no FileDiff, the text is printed as it is.
ShowFallback ==
    /\ ps.pc = "parsed"
    /\ ps.returned = "NULL"
    /\ out' = Append(out, Item("raw", text \o <<LF>>, ZeroLine))
    /\ ps' = [ps EXCEPT !.pc = "done"]
    /\ UNCHANGED <<heap, strtok_save>>
    /\ ShowFrame

\* Line 566
ShowHeader ==
    /\ ps.pc = "parsed"
    /\ ps.returned = "diff"
    /\ out' = Append(out, Item("header", print_diff_header(ps.diff, ps.term_width), ZeroLine))
    /\ ps' = [ps EXCEPT !.pc = "hunks", !.h = 1]
    /\ UNCHANGED <<heap, strtok_save>>
    /\ ShowFrame

\* Lines 569-575: the next hunk's banner.
ShowHunkHeader ==
    /\ ps.pc = "hunks"
    /\ ps.h <= Len(ps.diff.hunks)
    /\ out' = Append(out, Item("banner",
                               print_hunk_header(ps.diff.hunks[ps.h], ps.term_width,
                                                 Settings.use_colors),
                               ZeroLine))
    /\ ps' = [ps EXCEPT !.pc = "rows", !.i = 1]
    /\ UNCHANGED <<heap, strtok_save>>
    /\ ShowFrame

\* Lines 579-629: a Removed row starts a group; its rows are printed and i
\* moves past the group's Added rows.  A row whose pane text does not fit
\* the pane buffer is a write outside the buffer.
ShowGroup ==
    /\ ps.pc = "rows"
    /\ ps.i <= Len(ps.diff.hunks[ps.h].lines)
    /\ ps.diff.hunks[ps.h].lines[ps.i].type = "REMOVED"
    /\ LET lines == ps.diff.hunks[ps.h].lines
           rows == GroupRows(lines, ps.i, ps.col_width)
           overflow == \E p \in 1..Len(rows) :
                           RowOverflows(rows[p].line, ps.col_width, Settings.show_line_numbers)
       IN  \/ /\ ~overflow
              /\ out' = out \o rows
              /\ ps' = [ps EXCEPT !.i = RunEnd(lines, RunEnd(lines, ps.i + 1, "REMOVED"), "ADDED")]
           \/ /\ overflow
              /\ \E o \in PaneOutcomes : ps' = [ps EXCEPT !.pc = o]
              /\ UNCHANGED out
    /\ UNCHANGED <<heap, strtok_save>>
    /\ ShowFrame

\* Lines 630-636: any other row is printed as it is.  A row whose pane
\* text does not fit the pane buffer is a write outside the buffer.
ShowOther ==
    /\ ps.pc = "rows"
    /\ ps.i <= Len(ps.diff.hunks[ps.h].lines)
    /\ ps.diff.hunks[ps.h].lines[ps.i].type # "REMOVED"
    /\ LET line == ps.diff.hunks[ps.h].lines[ps.i]
           overflow == RowOverflows(line, ps.col_width, Settings.show_line_numbers)
       IN  \/ /\ ~overflow
              /\ out' = Append(out, RowItem(line, ps.col_width))
              /\ ps' = [ps EXCEPT !.i = @ + 1]
           \/ /\ overflow
              /\ \E o \in PaneOutcomes : ps' = [ps EXCEPT !.pc = o]
              /\ UNCHANGED out
    /\ UNCHANGED <<heap, strtok_save>>
    /\ ShowFrame

\* Lines 576 and 569: the hunk's rows are done, on to the next hunk.
ShowHunkEnd ==
    /\ ps.pc = "rows"
    /\ ps.i > Len(ps.diff.hunks[ps.h].lines)
    /\ ps' = [ps EXCEPT !.pc = "hunks", !.h = @ + 1]
    /\ UNCHANGED <<heap, strtok_save, out>>
    /\ ShowFrame

\* Lines 640-645
ShowFooter ==
    /\ ps.pc = "hunks"
    /\ ps.h > Len(ps.diff.hunks)
    /\ out' = Append(out, Item("footer", PrintFooter(ps.term_width), ZeroLine))
    /\ ps' = [ps EXCEPT !.pc = "done"]
    /\ UNCHANGED <<heap, strtok_save>>
    /\ ShowFrame

(***************************************************************************)
(* Specification of one call of show_side_by_side_diff.  The diff text is  *)
(* made of up to MaxLines lines, each ended by a line feed.                *)
(***************************************************************************)
MaxLines == 3

L_HUNK == <<64, 64, 32, 45, 49, 44, 50, 32, 43, 49, 44, 50, 32, 64, 64>>       \* "@@ -1,2 +1,2 @@"
L_HUNK2 == <<64, 64, 32, 45, 53, 32, 43, 55, 32, 64, 64>>     \* "@@ -5 +7 @@"
L_DEL == <<45, 111, 108, 100, 32, 108, 105, 110, 101>>         \* "-old line"
L_ADD == <<43, 110, 101, 119, 32, 108, 105, 110, 101>>         \* "+new line"
L_CTX == <<32, 99, 111, 110, 116, 101, 120, 116>>         \* " context"
L_PLAIN == <<112, 108, 97, 105, 110, 32, 116, 101, 120, 116>>     \* "plain text"
L_OLD == <<45, 45, 45, 32, 97, 47, 102>>         \* "--- a/f"
L_NEW == <<43, 43, 43, 32, 98, 47, 103>>         \* "+++ b/g"
L_TAB == <<SP, TAB, 120>>   \* a context line "<tab>x"
L_NONL == <<92, 32, 78, 111, 32, 110, 101, 119, 108, 105, 110, 101>>       \* "\ No newline"

LineSet == {L_HUNK, L_HUNK2, L_DEL, L_ADD, L_CTX, L_PLAIN, L_OLD, L_NEW, L_TAB, L_NONL}

RECURSIVE JoinLines(_)
JoinLines(ls) == IF ls = <<>> THEN <<>> ELSE Head(ls) \o <<LF>> \o JoinLines(Tail(ls))

\* The end-to-end example of section 8 of the design.
ExampleText == JoinLines(<<L_HUNK, L_DEL, L_ADD, L_CTX>>)

\* A text of one more "@@" line than the hunk array first has room for.
ManyHunksText == JoinLines([k \in 1..(HUNK_CAPACITY_INIT + 1) |-> L_HUNK2])

Texts ==
    {JoinLines(ls) : ls \in SeqsUpTo(LineSet, MaxLines)}
        \cup {ExampleText, ManyHunksText, NullText}

SettingsSet ==
    {NullSettings} \cup [null : {FALSE}, use_colors : BOOLEAN, show_line_numbers : BOOLEAN,
                         terminal_width : {0, 90}]

WsCols == {0, 100}

ShowStart ==
    [pc |-> "start", copy |-> 0, line |-> NullPtr, diff |-> ZeroDiff,
     left_num |-> 0, right_num |-> 0, returned |-> "none",
     term_width |-> 0, col_width |-> 0, h |-> 0, i |-> 0]

Init ==
    /\ text \in Texts
    /\ settings \in SettingsSet
    /\ ws_col \in WsCols
    /\ ps = ShowStart
    /\ out = <<>>
    /\ IdleHeap /\ IdleSan /\ IdleHH /\ IdleFit /\ IdleThr

Next ==
    \/ ShowEmpty
    \/ ShowParseBegin
    \/ ShowParseNoMemory
    \/ ShowParseLine
    \/ ShowParseLineNoMemory
    \/ ShowParseEnd
    \/ ShowFallback
    \/ ShowHeader
    \/ ShowHunkHeader
    \/ ShowGroup
    \/ ShowOther
    \/ ShowHunkEnd
    \/ ShowFooter

Spec == Init /\ [][Next]_vars

(***************************************************************************)
(* What the claims say about a diff text, read off the text itself.        *)
(***************************************************************************)
\* The indexes at which a non-empty line of txt begins.
LineStarts(txt) ==
    {p \in 1..Len(txt) : txt[p] # LF /\ (p = 1 \/ txt[p - 1] = LF)}

\* The lines that begin with "@@".
HunkStarts(txt) == {p \in LineStarts(txt) : At(txt, p) = AT /\ At(txt, p + 1) = AT}

\* The lines after the first "@@" line whose first character is c.
LinesInHunks(txt, c) ==
    {p \in LineStarts(txt) : txt[p] = c /\ \E q \in HunkStarts(txt) : q < p}

\* t occurs in b as a run of consecutive cells.
Contains(b, t) == \E k \in 0..(Len(b) - Len(t)) : SubSeq(b, k + 1, k + Len(t)) = t

Kinds == [j \in 1..Len(out) |-> out[j].k]

\* C1: after show_side_by_side_diff has run on a non-empty text none of
\* whose lines begins with "@@", the parser has returned no FileDiff and the
\* output is the text itself and nothing else (no header block, no hunk
\* banner, no footer rule).
C1_NoHunkTextIsEchoed ==
    (ps.pc = "done" /\ ~NothingToDisplay(text) /\ HunkStarts(text) = {}) =>
        /\ ps.returned = "NULL"
        /\ Len(out) = 1
        /\ out[1].k = "raw"
        /\ Take(out[1].b, Len(text)) = text

\* C2: the FileDiff returned by parse_unified_diff counts in additions the
\* lines after the first "@@" line whose first character is '+', and in
\* deletions those whose first character is '-', the lines that begin
\* "+++" or "---" included.
C2_CountsEveryPlusAndMinusLine ==
    (ps.pc = "parsed" /\ ps.returned = "diff") =>
        /\ ps.diff.additions = Cardinality(LinesInHunks(text, PLUS))
        /\ ps.diff.deletions = Cardinality(LinesInHunks(text, MINUS))

S_OLD_LINE == <<111, 108, 100, 32, 108, 105, 110, 101>>
S_NEW_LINE == <<110, 101, 119, 32, 108, 105, 110, 101>>
S_CONTEXT == <<99, 111, 110, 116, 101, 120, 116>>

\* C7: rendering "@@ -1,2 +1,2 @@\n-old line\n+new line\n context\n" prints,
\* in order, the header block with the totals +1 and -1, one hunk banner,
\* one Modified row with "old line" in its left pane and "new line" in its
\* right pane, one Context row, and the footer rule.
C7_ExampleIsRendered ==
    (ps.pc = "done" /\ text = ExampleText /\ ps.returned = "diff") =>
        /\ Kinds = <<"header", "banner", "row", "row", "footer">>
        /\ Contains(out[1].b, DIFF_COLOR_ADD_FG \o <<PLUS, DIGIT0 + 1>> \o DIFF_COLOR_RESET)
        /\ Contains(out[1].b, DIFF_COLOR_DEL_FG \o <<MINUS, DIGIT0 + 1>> \o DIFF_COLOR_RESET)
        /\ out[3].line.type = "MODIFIED"
        /\ Contains(out[3].b, S_OLD_LINE)
        /\ Contains(out[3].b, S_NEW_LINE)
        /\ out[4].line.type = "CONTEXT"
        /\ Contains(out[4].b, S_CONTEXT)

\* C9: when use_colors is false, no block printed for a parsed diff (header
\* block, hunk banner, row, footer rule) contains an escape byte.
C9_NoEscapeWithoutColors ==
    ~Settings.use_colors =>
        \A j \in 1..Len(out) :
            out[j].k \in {"header", "banner", "row", "footer"} =>
                \A c \in 1..Len(out[j].b) : out[j].b[c] # ESC

\* C11: a call on a non-empty text either prints the raw text and nothing
\* else, or renders every hunk and every row of the text, that is the hunks
\* and rows parse_unified_diff produces when no allocation fails.
C11_NoPartialRender ==
    (ps.pc = "done" /\ ~NothingToDisplay(text)) =>
        \/ Kinds = <<"raw">>
        \/ /\ ps.returned = "diff"
           /\ ps.diff.hunks = ParseAlone(text).diff.hunks

\* C12: a call with a null or an empty diff text prints the notice "No
\* differences to display" and nothing else, and does not run the parser:
\* no FileDiff is returned, no working copy is made, strtok is not called.
C12_NothingToDisplay ==
    (text = NullText \/ text = <<>>) =>
        /\ ps.pc \in {"start", "done"}
        /\ ps.returned = "none"
        /\ heap = <<>> /\ strtok_save = NullPtr
        /\ out = IF ps.pc = "start" THEN <<>> ELSE <<Item("info", PrintInfo, ZeroLine)>>
        /\ Contains(PrintInfo, Drop(S_INFO, 7))

\* The call with the empty string, and the call with the null pointer, has
\* returned after printing the notice.
C12_Witness ==
    /\ text = <<>>
    /\ ps.pc = "done"
    /\ Kinds = <<"info">>

C12_WitnessNull ==
    /\ text = NullText
    /\ ps.pc = "done"
    /\ Kinds = <<"info">>

(***************************************************************************)
(* Specification of one call of show_side_by_side_diff over a range of     *)
(* terminal sizes and configured widths: the narrow ones up to SmallWidth  *)
(* and those from MinWide to MaxWide, around the width at which a pane     *)
(* becomes wider than DIFF_MIN_COLUMN; ws_col = 0 is a terminal whose size *)
(* cannot be read, and the configured width may be zero or negative.  The  *)
(* text is the null pointer, the empty string or the example.              *)
(***************************************************************************)
SmallWidth == 4
MinWide == 82
MaxWide == 90

WidthSet == (0..SmallWidth) \cup (MinWide..MaxWide)

CallTexts == {NullText, <<>>, ExampleText}

CallSettings ==
    {NullSettings}
        \cup [null : {FALSE}, use_colors : {FALSE}, show_line_numbers : {TRUE},
              terminal_width : WidthSet \cup {-1, MaxWide + 1}]

InitCall ==
    /\ text \in CallTexts
    /\ settings \in CallSettings
    /\ ws_col \in WidthSet
    /\ ps = ShowStart
    /\ out = <<>>
    /\ IdleHeap /\ IdleSan /\ IdleHH /\ IdleFit /\ IdleThr

SpecCall == InitCall /\ [][Next]_vars

\* The number of cells of b that are c.
CountOf(b, c) == Cardinality({k \in 1..Len(b) : b[k] = c})

\* The width the design gives: the terminal's columns when they can be
\* read and 120 otherwise, replaced by the configured width exactly when
\* that is positive and smaller.
DetectedWidth == IF ws_col > 0 THEN ws_col ELSE 120

StatedWidth ==
    IF Settings.terminal_width > 0 /\ Settings.terminal_width < DetectedWidth
    THEN Settings.terminal_width ELSE DetectedWidth

\* C16: once the widths are computed, the output width is the stated one,
\* and the rules of the header block and of the footer are that many cells
\* long; a configured width that is zero, negative or not smaller than the
\* detected width leaves the detected width.
C16_OutputWidth ==
    ps.pc \notin {"start", "segv", "heap_smash"} /\ ~NothingToDisplay(text) =>
        /\ ps.term_width = StatedWidth
        /\ (Settings.terminal_width <= 0 \/ Settings.terminal_width >= DetectedWidth)
               => ps.term_width = DetectedWidth
        /\ \A j \in 1..Len(out) :
               /\ out[j].k = "header" => CountOf(out[j].b, BOX_DOUBLE) = StatedWidth
               /\ out[j].k = "footer" => CountOf(out[j].b, BOX_DOUBLE) = StatedWidth

\* A call on a terminal of MaxWide columns with a smaller positive
\* configured width has printed its footer that wide.
C16_Witness ==
    /\ ps.pc = "done"
    /\ ws_col = MaxWide
    /\ settings.terminal_width = MinWide
    /\ ps.term_width = MinWide
    /\ Kinds[Len(Kinds)] = "footer"

\* C17: the pane column width is max(40, floor((w - 3) / 2)) for the
\* output width w.
C17_ColumnWidth ==
    ps.pc \notin {"start", "segv", "heap_smash"} /\ ~NothingToDisplay(text) =>
        ps.col_width = Max(40, (ps.term_width - 3) \div 2)

\* A width above the minimum: 90 columns give panes of 43.
C17_Witness ==
    /\ ps.pc = "done"
    /\ ps.term_width = MaxWide
    /\ ps.col_width = (MaxWide - 3) \div 2
    /\ ps.col_width > DIFF_MIN_COLUMN

\* A narrow terminal, where the truncated quotient is not the floor.
C17_WitnessNarrow ==
    /\ ps.pc = "done"
    /\ ps.term_width = 2
    /\ ps.col_width = DIFF_MIN_COLUMN

(***************************************************************************)
(* Specification of parse_unified_diff as show_side_by_side_diff calls it, *)
(* up to its return: the text is made of up to MaxParseLines lines (hunk   *)
(* markers, removed, added and context lines, the no-newline marker, path  *)
(* markers), or is a blob of two file sections, or has more hunks than the *)
(* hunk array first has room for.                                          *)
(***************************************************************************)
MaxParseLines == 4

L_OLD2 == <<45, 45, 45, 32, 97, 47, 104>>         \* "--- a/h"
L_NEW2 == <<43, 43, 43, 32, 98, 47, 105>>         \* "+++ b/i"
L_GIT == S_DIFF_GIT \o <<32, 97, 47, 102, 32, 98, 47, 103>>    \* "diff --git a/f b/g"

ParseLineSet == {L_HUNK, L_HUNK2, L_DEL, L_ADD, L_CTX, L_NONL, L_OLD, L_NEW}

\* Two file sections: the first with two hunks, the second with one.
BlobText ==
    JoinLines(<<L_GIT, L_OLD, L_NEW, L_HUNK, L_DEL, L_ADD, L_HUNK2, L_ADD,
                L_GIT, L_OLD2, L_NEW2, L_HUNK2, L_DEL, L_CTX>>)

ParseTexts ==
    {JoinLines(ls) : ls \in (SeqsUpTo(ParseLineSet, MaxParseLines) \ {<<>>})}
        \cup {BlobText, ManyHunksText}

InitParse ==
    /\ text \in ParseTexts
    /\ settings = NullSettings
    /\ ws_col = 0
    /\ ps = ShowStart
    /\ out = <<>>
    /\ IdleHeap /\ IdleSan /\ IdleHH /\ IdleFit /\ IdleThr

NextParse ==
    \/ ShowParseBegin
    \/ ShowParseNoMemory
    \/ ShowParseLine
    \/ ShowParseLineNoMemory
    \/ ShowParseEnd

SpecParse == InitParse /\ [][NextParse]_vars

\* The parse loop is at a line, and the step is an iteration of the loop.
AtLine == ps.pc = "parse" /\ ps.line # NullPtr

\* The "@@" line of the text that opened the hunk the line at p belongs to.
HunkStartBefore(txt, p) ==
    CHOOSE q \in HunkStarts(txt) : q < p /\ \A r \in HunkStarts(txt) : r < p => r <= q

\* The lines of that hunk before p that are content lines with prefix c or
\* a blank: the removed (c = '-') or added (c = '+') and the context lines.
SideLinesBefore(txt, p, c) ==
    {r \in LineStarts(txt) :
        /\ HunkStartBefore(txt, p) < r /\ r < p
        /\ txt[r] \in {c, SP}
        /\ ~(At(txt, r + 1) = c /\ At(txt, r + 2) = c)}

\* The rows of the hunk being filled, before and after the step.
FillLines == ps.diff.hunks[Len(ps.diff.hunks)].lines
FillLinesAfter == ps'.diff.hunks[Len(ps.diff.hunks)].lines

\* The number of rows among the first j - 1 of lines whose type is in ts.
RowsBefore(lines, j, ts) == Cardinality({i \in 1..(j - 1) : lines[i].type \in ts})

\* C13 as stated: in every hunk of the returned FileDiff, the k-th stored
\* row that is Context or Removed has left_num = old_start + k, and the k-th
\* stored row that is Context or Added has right_num = new_start + k.
C13_StoredRowsAreNumbered ==
    (ps.pc = "parsed" /\ ps.returned = "diff") =>
        \A h \in 1..Len(ps.diff.hunks) :
            LET hunk == ps.diff.hunks[h]
            IN  \A j \in 1..Len(hunk.lines) :
                    /\ hunk.lines[j].type \in {"CONTEXT", "REMOVED"} =>
                          hunk.lines[j].left_num
                              = hunk.old_start + RowsBefore(hunk.lines, j, {"CONTEXT", "REMOVED"})
                    /\ hunk.lines[j].type \in {"CONTEXT", "ADDED"} =>
                          hunk.lines[j].right_num
                              = hunk.new_start + RowsBefore(hunk.lines, j, {"CONTEXT", "ADDED"})

\* C13: an iteration of the parse loop at a "@@" line sets both running
\* numbers to the new hunk's old_start and new_start; an iteration that
\* stores a row leaves the stored rows as they are, and the row it stores
\* for the k-th Context or Removed line of the hunk's source has left_num =
\* old_start + k, the one for the k-th Context or Added line has right_num =
\* new_start + k (k counted from 0).
C13_LineNumbers ==
    [][AtLine =>
        /\ Len(ps'.diff.hunks) = Len(ps.diff.hunks) + 1 =>
               /\ ps'.left_num = ps'.diff.hunks[Len(ps'.diff.hunks)].old_start
               /\ ps'.right_num = ps'.diff.hunks[Len(ps'.diff.hunks)].new_start
        /\ (Len(ps'.diff.hunks) = Len(ps.diff.hunks) /\ ps.diff.hunks # <<>>) =>
               /\ Len(FillLinesAfter) \in {Len(FillLines), Len(FillLines) + 1}
               /\ SubSeq(FillLinesAfter, 1, Len(FillLines)) = FillLines
               /\ Len(FillLinesAfter) = Len(FillLines) + 1 =>
                      LET row == FillLinesAfter[Len(FillLinesAfter)]
                          hunk == ps.diff.hunks[Len(ps.diff.hunks)]
                          p == ps.line.pos
                      IN  /\ row.type \in {"CONTEXT", "REMOVED"} =>
                                row.left_num
                                    = hunk.old_start + Cardinality(SideLinesBefore(text, p, MINUS))
                          /\ row.type \in {"CONTEXT", "ADDED"} =>
                                row.right_num
                                    = hunk.new_start + Cardinality(SideLinesBefore(text, p, PLUS))]_vars

\* The hunk "@@ -5 +7 @@" holds, after its first row was dropped for want
\* of memory, a Removed row numbered 6 and a Context row numbered 7 and 8.
C13_Witness ==
    /\ ps.pc = "parsed"
    /\ Len(ps.diff.hunks) = 1
    /\ ps.diff.hunks[1].old_start = 5
    /\ Len(ps.diff.hunks[1].lines) = 2
    /\ ps.diff.hunks[1].lines[1].type = "REMOVED" /\ ps.diff.hunks[1].lines[1].left_num = 6
    /\ ps.diff.hunks[1].lines[2].type = "CONTEXT" /\ ps.diff.hunks[1].lines[2].left_num = 7
    /\ ps.diff.hunks[1].lines[2].right_num = 8

\* The line the parse loop is at, as it stands in the working copy.
CurLine == CStr(heap[ps.line.buf].bytes, ps.line.pos)

\* C14: an iteration of the parse loop at a line of a hunk whose first
\* character is '\\' appends one Context row with the line's text to the
\* current hunk and leaves both running line numbers as they are.
C14_NoNewlineMarkerIsARow ==
    [][(AtLine /\ ps.diff.hunks # <<>> /\ At(CurLine, 1) = BACKSLASH) =>
        /\ Len(ps'.diff.hunks) = Len(ps.diff.hunks)
        /\ FillLinesAfter
              = Append(FillLines,
                       [ZeroLine EXCEPT !.left_content = Tail(CurLine),
                                        !.right_content = Tail(CurLine)])
        /\ ps'.left_num = ps.left_num
        /\ ps'.right_num = ps.right_num]_vars

\* The k-th smallest member of a set of numbers.
Kth(S, k) == CHOOSE x \in S : Cardinality({y \in S : y < x}) = k - 1

\* The line of txt that begins at p, without its line feed.
LineAt(txt, p) ==
    LET e == CHOOSE e \in p..(Len(txt) + 1) :
                 /\ e = Len(txt) + 1 \/ txt[e] = LF
                 /\ \A i \in p..(e - 1) : txt[i] # LF
    IN  SubSeq(txt, p, e - 1)

\* The lines that begin with three times the character c: the path markers.
MarkerStarts(txt, c) ==
    {p \in LineStarts(txt) : At(txt, p) = c /\ At(txt, p + 1) = c /\ At(txt, p + 2) = c}

\* The path the last marker line names, without a leading "a/" or "b/"
\* (the letter d); empty when the text has no such marker.
StatedPath(txt, c, d) ==
    IF MarkerStarts(txt, c) = {} THEN <<>>
    ELSE LET L == LineAt(txt, Kth(MarkerStarts(txt, c), Cardinality(MarkerStarts(txt, c))))
             path == SubSeq(L, 5, Len(L))
         IN  IF Len(path) >= 2 /\ path[1] = d /\ path[2] = SLASH
             THEN SubSeq(path, 3, Len(path)) ELSE path

\* C15: the FileDiff parse_unified_diff returns for a text holds one hunk
\* for every "@@" line of the text, in the order of the text; additions and
\* deletions count the added and removed lines of all its sections; and
\* old_path and new_path are the paths of the last "---" and the last "+++"
\* line, without a leading "a/" or "b/".
C15_BlobIsOneFileDiff ==
    (ps.pc = "parsed" /\ ps.returned = "diff") =>
        /\ Len(ps.diff.hunks) = Cardinality(HunkStarts(text))
        /\ \A k \in 1..Len(ps.diff.hunks) :
               k <= Cardinality(HunkStarts(text)) =>
                   ps.diff.hunks[k].header = LineAt(text, Kth(HunkStarts(text), k))
        /\ ps.diff.additions
              = Cardinality(LinesInHunks(text, PLUS) \ MarkerStarts(text, PLUS))
        /\ ps.diff.deletions
              = Cardinality(LinesInHunks(text, MINUS) \ MarkerStarts(text, MINUS))
        /\ ps.diff.old_path = StatedPath(text, MINUS, LOWER_A)
        /\ ps.diff.new_path = StatedPath(text, PLUS, LOWER_B)

\* The blob of two sections has been parsed into three hunks with the
\* paths of its second section.
C15_Witness ==
    /\ text = BlobText
    /\ ps.pc = "parsed" /\ ps.returned = "diff"
    /\ Len(ps.diff.hunks) = 3
    /\ ps.diff.additions = 2 /\ ps.diff.deletions = 2
    /\ ps.diff.old_path = <<104>> /\ ps.diff.new_path = <<105>>

(***************************************************************************)
(* Specification of one call of show_side_by_side_diff on a single hunk:   *)
(* the marker "@@ -5 +7 @@" and up to MaxHunkLines content lines, each      *)
(* removed, added or context, the k-th with the k-th letter as its text.   *)
(***************************************************************************)
MaxHunkLines == 5

PairLine(prefix, k) == <<prefix, LOWER_A + k - 1>>

PairTexts ==
    {JoinLines(<<L_HUNK2>> \o [k \in 1..Len(ts) |-> PairLine(ts[k], k)]) :
        ts \in SeqsUpTo({MINUS, PLUS, SP}, MaxHunkLines)}

PairSettings ==
    {NullSettings,
     [null |-> FALSE, use_colors |-> FALSE, show_line_numbers |-> FALSE, terminal_width |-> 0]}

InitPair ==
    /\ text \in PairTexts
    /\ settings \in PairSettings
    /\ ws_col = 0
    /\ ps = ShowStart
    /\ out = <<>>
    /\ IdleHeap /\ IdleSan /\ IdleHH /\ IdleFit /\ IdleThr

NextPair ==
    \/ ShowParseBegin
    \/ ShowParseLine
    \/ ShowParseEnd
    \/ ShowHeader
    \/ ShowHunkHeader
    \/ ShowGroup
    \/ ShowOther
    \/ ShowHunkEnd
    \/ ShowFooter

SpecPair == InitPair /\ [][NextPair]_vars

\* The rows of the hunk being printed, and whether the pairing loop is at a
\* Removed row.
CurLines == ps.diff.hunks[ps.h].lines

AtGroup ==
    /\ ps.pc = "rows"
    /\ ps.i <= Len(CurLines)
    /\ CurLines[ps.i].type = "REMOVED"

\* The length of the maximal run of rows of type t that starts at index j
\* (0 when the row at j is not of type t).
RunLength(lines, j, t) ==
    CHOOSE r \in 0..(Len(lines) - j + 1) :
        /\ \A k \in 0..(r - 1) : lines[j + k].type = t
        /\ (j + r > Len(lines) \/ lines[j + r].type # t)

GroupR == RunLength(CurLines, ps.i, "REMOVED")
GroupA == RunLength(CurLines, ps.i + GroupR, "ADDED")

\* The rows the step has printed.
Printed == SubSeq(out', Len(out) + 1, Len(out'))

\* C4: when the pairing loop is at a Removed row, that row starts a maximal
\* run of R Removed rows followed by a maximal run of A Added rows, and the
\* step prints exactly max(R, A) rows; the p-th has the content and number
\* of the p-th removed line on its left if p < R (else nothing on its
\* left), and of the p-th added line on its right if p < A (else nothing on
\* its right); scanning resumes after the Added run.
C4_GroupRowsArePaired ==
    [][AtGroup =>
        /\ (ps.i = 1 \/ CurLines[ps.i - 1].type # "REMOVED")
        /\ GroupR >= 1
        /\ Len(Printed) = Max(GroupR, GroupA)
        /\ ps'.i = ps.i + GroupR + GroupA
        /\ \A p \in 0..(Len(Printed) - 1) :
              LET row == Printed[p + 1].line
              IN  /\ Printed[p + 1].k = "row"
                  /\ IF p < GroupR
                     THEN /\ row.left_content = CurLines[ps.i + p].left_content
                          /\ row.left_num = CurLines[ps.i + p].left_num
                     ELSE row.left_content = <<>> /\ row.left_num = 0
                  /\ IF p < GroupA
                     THEN /\ row.right_content = CurLines[ps.i + GroupR + p].right_content
                          /\ row.right_num = CurLines[ps.i + GroupR + p].right_num
                     ELSE row.right_content = <<>> /\ row.right_num = 0]_vars

\* A group of 1 removed and 3 added lines has been printed: one row with
\* both sides, then rows with the 2nd and 3rd added line on the right only.
C4_Witness ==
    /\ ps.pc = "rows"
    /\ \E j \in 1..(Len(out) - 2) :
          /\ out[j].k = "row" /\ out[j].line.left_num = 5 /\ out[j].line.right_num = 7
          /\ out[j].line.left_content = <<LOWER_A>>
          /\ out[j].line.right_content = <<LOWER_B>>
          /\ out[j + 1].line.left_content = <<>> /\ out[j + 1].line.right_num = 8
          /\ out[j + 2].line.left_content = <<>> /\ out[j + 2].line.right_num = 9
          /\ Len(out) = j + 2

\* C5: the rows printed for a run of R removed and A added lines are
\* min(R, A) Modified rows, each with both sides and the two original line
\* numbers, then R - A Removed rows with an empty right side when R > A, or
\* A - R Added rows with an empty left side when A > R.
C5_GroupRowsAreClassified ==
    [][AtGroup =>
        \A p \in 1..Len(Printed) :
            LET row == Printed[p].line
            IN  IF p <= Min(GroupR, GroupA)
                THEN /\ row.type = "MODIFIED"
                     /\ row.left_content # <<>> /\ row.right_content # <<>>
                     /\ row.left_num = CurLines[ps.i + p - 1].left_num
                     /\ row.right_num = CurLines[ps.i + GroupR + p - 1].right_num
                ELSE IF GroupR > GroupA
                THEN row.type = "REMOVED" /\ row.right_content = <<>> /\ row.left_content # <<>>
                ELSE row.type = "ADDED" /\ row.left_content = <<>> /\ row.right_content # <<>>]_vars

RowTypes == [j \in 1..Len(out) |-> out[j].line.type]

\* 3 removed and 1 added line have been printed as 1 Modified and 2 Removed
\* rows, and (in another run) 2 and 2 as 2 Modified rows.
C5_Witness ==
    /\ ps.pc = "done"
    /\ Len(out) = 6
    /\ SubSeq(RowTypes, 3, 5) = <<"MODIFIED", "REMOVED", "REMOVED">>
    /\ out[3].line.left_num = 5 /\ out[3].line.right_num = 7
    /\ out[4].line.left_num = 6 /\ out[4].line.right_content = <<>>

\* A row has no number and no content on its right, resp. on its left.
NoRight(row) == row.right_num < 1 /\ row.right_content = <<>>
NoLeft(row) == row.left_num < 1 /\ row.left_content = <<>>

\* The cells of the printed row b that follow the centre separator.
AfterSeparator(b) ==
    LET k == CHOOSE k \in 1..Len(b) : b[k] = BOX_VERTICAL
    IN  SubSeq(b, k + 2 + Len(DIFF_COLOR_RESET), Len(b))

Blank4 == <<SP, SP, SP, SP>>

\* C20: every Removed row stored in a hunk and every Removed row printed has
\* no right line number and no right content, every Added row no left line
\* number and no left content; with line numbers shown, the printed row has
\* four blanks where the number of the absent side would stand.
C20_AbsentSideIsEmpty ==
    /\ \A h \in 1..Len(ps.diff.hunks) :
           \A j \in 1..Len(ps.diff.hunks[h].lines) :
               LET row == ps.diff.hunks[h].lines[j]
               IN  /\ row.type = "REMOVED" => NoRight(row)
                   /\ row.type = "ADDED" => NoLeft(row)
    /\ \A j \in 1..Len(out) :
           out[j].k = "row" =>
               LET row == out[j].line
                   b == out[j].b
               IN  /\ row.type = "REMOVED" =>
                          /\ NoRight(row)
                          /\ Settings.show_line_numbers => SubSeq(AfterSeparator(b), 1, 4) = Blank4
                   /\ row.type = "ADDED" =>
                          /\ NoLeft(row)
                          /\ Settings.show_line_numbers => SubSeq(b, 1, 4) = Blank4

\* With line numbers shown, a Removed row of the pairing loop and an Added
\* row have been printed.
C20_Witness ==
    /\ ps.pc = "done"
    /\ Settings.show_line_numbers
    /\ \E j \in 1..Len(out) : out[j].k = "row" /\ out[j].line.type = "REMOVED"
    /\ \E j \in 1..Len(out) : out[j].k = "row" /\ out[j].line.type = "ADDED"

(***************************************************************************)
(* What a printed row shows: its cells left and right of the centre        *)
(* separator, measured as the terminal shows them (escape sequences take   *)
(* no cell).                                                               *)
(***************************************************************************)
\* The cells of the printed row b before the centre separator.
LeftPart(b) ==
    LET k == CHOOSE k \in 1..Len(b) : b[k] = BOX_VERTICAL
    IN  SubSeq(b, 1, k - 2 - Len(DIFF_COLOR_SEPARATOR))

\* The cells after the centre separator, without the line feed.
RightPart(b) == SubSeq(AfterSeparator(b), 1, Len(AfterSeparator(b)) - 1)

\* The text of a gutter that shows num.
GutterText(num) ==
    IF num > 0 THEN DIFF_COLOR_LINE_NUM \o Fmt4d(num) \o DIFF_COLOR_RESET ELSE Blank4

\* part without the colour sequence it may begin with.
Uncoloured(part) ==
    IF part # <<>> /\ part[1] = ESC
    THEN SubSeq(part, (CHOOSE k \in 1..Len(part) : part[k] = LOWER_M /\ \A q \in 1..(k - 1) : part[q] # LOWER_M) + 1, Len(part))
    ELSE part

\* The number of terminal cells that part takes: its cells outside escape
\* sequences.
Cells(part) == Cardinality({k \in 1..Len(part) : ~InEscape(part, k)})

\* One side of a printed row is laid out as the setting asks: with line
\* numbers, the gutter of num and then a pane of col_width - 4 cells, without
\* them a pane of col_width cells that begins with the marker and the text.
SideLaidOut(part, num, marker, content, col_width) ==
    LET show == Settings.show_line_numbers
        pane == IF show THEN SubSeq(part, Len(GutterText(num)) + 1, Len(part)) ELSE part
        room == col_width - (IF show THEN DIFF_GUTTER_WIDTH ELSE 0)
    IN  /\ show => StartsWith(part, GutterText(num))
        /\ Cells(pane) = room
        /\ Cells(part) = col_width
        /\ StartsWith(Uncoloured(pane), <<marker>> \o Take(content, Min(Len(content), room - 4)))

\* C21: a printed row has a line-number gutter on each side exactly when
\* show_line_numbers is set; without it the pane's text field is 4 cells
\* wider, so that each side takes col_width cells with and without gutters.
C21_GuttersFollowSetting ==
    \A j \in 1..Len(out) :
        out[j].k = "row" =>
            LET row == out[j].line
            IN  /\ SideLaidOut(LeftPart(out[j].b), row.left_num,
                               IF row.type = "REMOVED" THEN MINUS ELSE SP,
                               row.left_content, ps.col_width)
                /\ SideLaidOut(RightPart(out[j].b), row.right_num,
                               IF row.type = "ADDED" THEN PLUS ELSE SP,
                               row.right_content, ps.col_width)

\* The same for the rows that are not of type Modified.
C21_UnpairedRows ==
    \A j \in 1..Len(out) :
        (out[j].k = "row" /\ out[j].line.type # "MODIFIED") =>
            LET row == out[j].line
            IN  /\ SideLaidOut(LeftPart(out[j].b), row.left_num,
                               IF row.type = "REMOVED" THEN MINUS ELSE SP,
                               row.left_content, ps.col_width)
                /\ SideLaidOut(RightPart(out[j].b), row.right_num,
                               IF row.type = "ADDED" THEN PLUS ELSE SP,
                               row.right_content, ps.col_width)

\* A Context row has been printed without line numbers, and (in another
\* run) one with them.
C21_Witness ==
    /\ ps.pc = "done"
    /\ ~Settings.show_line_numbers
    /\ \E j \in 1..Len(out) : out[j].k = "row" /\ out[j].line.type = "CONTEXT"

(***************************************************************************)
(* Specification of one call of show_side_by_side_diff on a single hunk    *)
(* whose lines may come from a file with CR LF line ends: the marker       *)
(* "@@ -5 +7 @@" and up to MaxRowLines content lines, each removed, added  *)
(* or context, the k-th with the k-th letter as its text and, for some, a  *)
(* carriage return after it.                                               *)
(***************************************************************************)
MaxRowLines == 4

RowLine(t, k) == <<t[1], LOWER_A + k - 1>> \o (IF t[2] THEN <<CR>> ELSE <<>>)

RowTexts ==
    {JoinLines(<<L_HUNK2>> \o [k \in 1..Len(ts) |-> RowLine(ts[k], k)]) :
        ts \in SeqsUpTo({MINUS, PLUS, SP} \X BOOLEAN, MaxRowLines)}

InitRows ==
    /\ text \in RowTexts
    /\ settings \in PairSettings
    /\ ws_col = 0
    /\ ps = ShowStart
    /\ out = <<>>
    /\ IdleHeap /\ IdleSan /\ IdleHH /\ IdleFit /\ IdleThr

SpecRows == InitRows /\ [][NextPair]_vars

\* The pairing loop is at a row of type t.
AtRow(t) ==
    /\ ps.pc = "rows"
    /\ ps.i <= Len(CurLines)
    /\ CurLines[ps.i].type = t

\* The text of the k-th content line of the hunk as the design wants it
\* stored: the line without its prefix, sanitized.
SourceText(k) == SanRef(Tail(LineAt(text, Kth(LineStarts(text), k + 1))), <<>>)

\* The line numbers shown on the left, resp. right, of the rows in rows.
LeftNums(rows) == {rows[j].left_num : j \in {j \in 1..Len(rows) : rows[j].left_num > 0}}
RightNums(rows) == {rows[j].right_num : j \in {j \in 1..Len(rows) : rows[j].right_num > 0}}

\* The diff_line_t of the rows printed so far.
OutRows ==
    LET js == {j \in 1..Len(out) : out[j].k = "row"}
    IN  [n \in 1..Cardinality(js) |-> out[Kth(js, n)].line]

\* C22: when the pairing loop is at a Context row, that row carries both
\* line numbers and on both sides the sanitized text of its source line; the
\* rows before it have all been printed and no row after it has; the step
\* prints exactly this row, as it is, with its text in both panes, and moves
\* to the next row.
C22_ContextRowsPassThrough ==
    [][AtRow("CONTEXT") =>
        LET row == CurLines[ps.i]
        IN  /\ row.left_num > 0 /\ row.right_num > 0
            /\ row.left_content = SourceText(ps.i)
            /\ row.right_content = SourceText(ps.i)
            /\ LeftNums(OutRows) = LeftNums(SubSeq(CurLines, 1, ps.i - 1))
            /\ RightNums(OutRows) = RightNums(SubSeq(CurLines, 1, ps.i - 1))
            /\ Len(Printed) = 1
            /\ Printed[1].k = "row"
            /\ Printed[1].line = row
            /\ Contains(LeftPart(Printed[1].b), <<SP>> \o row.left_content \o <<SP>>)
            /\ Contains(RightPart(Printed[1].b), <<SP>> \o row.right_content \o <<SP>>)
            /\ ps'.i = ps.i + 1]_vars

\* The hunk "-a", "+b", " c" with a carriage return, "+d" has been printed:
\* a Modified row, the Context row with "c" on both sides, an Added row.
C22_Witness ==
    /\ ps.pc = "done"
    /\ Len(out) = 6
    /\ Contains(text, <<SP, LOWER_A + 2, CR, LF>>)
    /\ SubSeq(RowTypes, 3, 5) = <<"MODIFIED", "CONTEXT", "ADDED">>
    /\ out[4].line.left_num = 6 /\ out[4].line.right_num = 8
    /\ out[4].line.left_content = <<LOWER_A + 2>>
    /\ out[4].line.right_content = <<LOWER_A + 2>>

\* The index at which the run of Added rows that holds row j begins.
AddedRunStart(lines, j) ==
    CHOOSE s \in 1..j :
        /\ \A k \in s..j : lines[k].type = "ADDED"
        /\ (s = 1 \/ lines[s - 1].type # "ADDED")

\* Row j is an Added row whose run does not follow a Removed row.
UnpairedAdded(lines, j) ==
    /\ lines[j].type = "ADDED"
    /\ (AddedRunStart(lines, j) = 1 \/ lines[AddedRunStart(lines, j) - 1].type # "REMOVED")

\* The pairing loop has gone through all rows of the hunk.
AtHunkEnd == ps.pc = "rows" /\ ps.i > Len(CurLines)

\* C23: the pairing loop stands at an Added row only when that row's run
\* does not follow a Removed row, and the step then prints this row alone,
\* as it is, and moves to the next row; when the loop has gone through the
\* hunk, every such Added row has been printed exactly once, as an Added
\* row with nothing on its left, and a Removed row that follows it as a row
\* of its own without that Added line; a step at a Removed row resumes at
\* the first row after the Added run that follows the Removed run.
C23_UnpairedAddedRows ==
    [][/\ AtRow("ADDED") =>
              /\ UnpairedAdded(CurLines, ps.i)
              /\ Len(Printed) = 1
              /\ Printed[1].k = "row"
              /\ Printed[1].line = CurLines[ps.i]
              /\ ps'.i = ps.i + 1
       /\ AtHunkEnd =>
              \A j \in 1..Len(CurLines) :
                  UnpairedAdded(CurLines, j) =>
                      /\ Cardinality({n \in 1..Len(OutRows) :
                                         OutRows[n].right_num = CurLines[j].right_num}) = 1
                      /\ \E n \in 1..Len(OutRows) :
                             /\ OutRows[n] = CurLines[j]
                             /\ NoLeft(OutRows[n])
                             /\ (j < Len(CurLines) /\ CurLines[j + 1].type = "REMOVED") =>
                                    /\ OutRows[n + 1].left_num = CurLines[j + 1].left_num
                                    /\ OutRows[n + 1].type # "ADDED"
       /\ AtGroup =>
              /\ ps'.i > ps.i
              /\ \A k \in ps.i..(ps'.i - 1) :
                     CurLines[k].type = IF k < ps.i + GroupR THEN "REMOVED" ELSE "ADDED"
              /\ (ps'.i <= Len(CurLines) => CurLines[ps'.i].type # "ADDED")]_vars

\* The hunk "+a", "+b", "-c", "-d" has been printed as two Added rows and
\* then two Removed rows.
C23_Witness ==
    /\ ps.pc = "done"
    /\ Len(out) = 7
    /\ SubSeq(RowTypes, 3, 6) = <<"ADDED", "ADDED", "REMOVED", "REMOVED">>
    /\ out[3].line.right_num = 7 /\ out[4].line.right_num = 8
    /\ out[5].line.left_num = 5 /\ out[6].line.left_num = 6

(***************************************************************************)
(* Specification of one call of show_side_by_side_diff on a text that is   *)
(* one hunk marker, "@@ -5 +7 @@" followed by up to MaxSection bytes of    *)
(* section text, with a configured width from MinBanner to MaxBanner:      *)
(* widths below, at and above the length of the marker.                    *)
(***************************************************************************)
MaxSection == 2
MinBanner == 9
MaxBanner == 17

BannerTexts == {JoinLines(<<L_HUNK2 \o Rep(LOWER_A, n)>>) : n \in 0..MaxSection}

BannerSettings ==
    [null : {FALSE}, use_colors : BOOLEAN, show_line_numbers : {TRUE},
     terminal_width : MinBanner..MaxBanner]

InitBanner ==
    /\ text \in BannerTexts
    /\ settings \in BannerSettings
    /\ ws_col = 0
    /\ ps = ShowStart
    /\ out = <<>>
    /\ IdleHeap /\ IdleSan /\ IdleHH /\ IdleFit /\ IdleThr

NextBanner ==
    \/ ShowParseBegin
    \/ ShowParseLine
    \/ ShowParseEnd
    \/ ShowHeader
    \/ ShowHunkHeader
    \/ ShowHunkEnd
    \/ ShowFooter

SpecBanner == InitBanner /\ [][NextBanner]_vars

\* The cells of part that the terminal shows, without the line feed.
Visible(part) ==
    LET ks == {k \in 1..Len(part) : ~InEscape(part, k) /\ part[k] # LF}
    IN  [n \in 1..Cardinality(ks) |-> part[Kth(ks, n)]]

\* The banner the design describes for a marker and a width w with room
\* for the marker and its two spaces.
CentredBanner(marker, w) ==
    Rep(BOX_LIGHT, (w - Len(marker)) \div 2)
        \o <<SP>> \o marker \o <<SP>>
        \o Rep(BOX_LIGHT, w - Len(marker) - 2 - ((w - Len(marker)) \div 2))

\* The printed banner b is the one C24 describes for marker and width w.
BannerAsStated(b, marker, w) ==
    /\ Len(marker) + 2 <= w =>
           /\ Len(Visible(b)) = w
           /\ Visible(b) = CentredBanner(marker, w)
    /\ Len(marker) > w =>
           /\ CountOf(b, BOX_LIGHT) = 0
           /\ Visible(b) = <<SP>> \o marker \o <<SP>>

\* C24: the banner printed for a hunk whose marker text has h cells, at an
\* output width w with h + 2 <= w, has exactly w cells: floor((w - h) / 2)
\* rule cells, a space, the marker, a space and the remaining rule cells;
\* for a marker wider than w it has no rule cell and the marker at its left.
C24_BannerIsCentred ==
    \A j \in 1..Len(out) :
        out[j].k = "banner" =>
            BannerAsStated(out[j].b, ps.diff.hunks[1].header, ps.term_width)

\* C24, amended: at a width w with h + 3 <= w the banner is the centred one
\* of exactly w cells; at w = h + 2 it is one rule cell, a space, the marker
\* and a space, w + 1 cells; at a smaller width it has no rule cell and is
\* a space, the marker and a space.
C24_Banner ==
    \A j \in 1..Len(out) :
        out[j].k = "banner" =>
            LET marker == ps.diff.hunks[1].header
                w == ps.term_width
                shown == Visible(out[j].b)
            IN  /\ Len(marker) + 3 <= w => BannerAsStated(out[j].b, marker, w)
                /\ Len(marker) + 2 = w =>
                       /\ shown = <<BOX_LIGHT, SP>> \o marker \o <<SP>>
                       /\ Len(shown) = w + 1
                /\ Len(marker) + 2 > w => shown = <<SP>> \o marker \o <<SP>>

\* A banner has been printed at a width 4 above the length of the marker,
\* and (in another run) one at a width below it.
C24_Witness ==
    /\ ps.pc = "done"
    /\ ps.term_width = Len(ps.diff.hunks[1].header) + 4
    /\ \E j \in 1..Len(out) :
          /\ out[j].k = "banner"
          /\ CountOf(out[j].b, BOX_LIGHT) = 2

\* C25: no step of the call changes the caller's text, a step that writes
\* to the heap writes to the working copy of this call only, and no step
\* writes outside an allocation.
C25_WritesStayInCopy ==
    [][/\ text' = text
       /\ \A b \in 1..Len(heap) : b # ps'.copy => heap'[b] = heap[b]
       /\ ps'.pc \notin UBOutcomes]_vars

\* A content line has been tokenised and sanitized in the working copy,
\* which now has terminators where the caller's text has line feeds.
C25_Witness ==
    /\ ps.pc = "parse"
    /\ Len(heap) = 1
    /\ Len(ps.diff.hunks) = 1
    /\ Len(ps.diff.hunks[1].lines) = 1
    /\ CountOf(text, LF) >= 2
    /\ CountOf(heap[1].bytes, LF) < CountOf(text, LF)

(***************************************************************************)
(* Specification of one call of show_side_by_side_diff that is scheduled   *)
(* until it can do no more: the function runs on one thread and nothing    *)
(* but its own end stops it, so a step that can be taken is taken.  The    *)
(* text is made of up to MaxLiveLines lines, among them a context line     *)
(* with a tab; the settings pointer is NULL.                               *)
(***************************************************************************)
MaxLiveLines == 3

LiveLineSet == {L_HUNK2, L_DEL, L_ADD, L_CTX, L_TAB}

LiveTexts == {JoinLines(ls) : ls \in SeqsUpTo(LiveLineSet, MaxLiveLines)}

InitLive ==
    /\ text \in LiveTexts
    /\ settings = NullSettings
    /\ ws_col = 0
    /\ ps = ShowStart
    /\ out = <<>>
    /\ IdleHeap /\ IdleSan /\ IdleHH /\ IdleFit /\ IdleThr

SpecLive == InitLive /\ [][Next]_vars /\ WF_vars(Next)

\* C27: every call of show_side_by_side_diff returns, and while it prints
\* the rows of a hunk its row index only grows.
C27_Terminates ==
    /\ <>(ps.pc = "done")
    /\ [][(ps.pc = "rows" /\ ps'.pc = "rows") => ps'.i > ps.i]_vars

\* The same for the texts in which no content line has a tab.
C27_TerminatesWithoutTabs ==
    /\ ~Contains(text, <<TAB>>) => <>(ps.pc = "done")
    /\ [][(ps.pc = "rows" /\ ps'.pc = "rows") => ps'.i > ps.i]_vars

\* A call on a text of a hunk marker and two content lines has returned
\* after printing the header, the banner, the rows and the footer.
C27_Witness ==
    /\ ps.pc = "done"
    /\ CountOf(text, LF) = 3
    /\ Len(out) >= 4
    /\ out[Len(out)].k = "footer"

\* The printed row b has col_width cells on each side of the separator.
PanesAre(b, col_width) ==
    /\ Cells(LeftPart(b)) = col_width
    /\ Cells(RightPart(b)) = col_width
    /\ Cells(b) - 1 = 2 * col_width + 3

\* C28: every printed row, whatever its type, has col_width cells left of
\* the centre separator and col_width cells right of it, 2 * col_width + 3
\* cells in all, and that is no more than the width of the header and
\* footer rules.
C28_RowsAreAligned ==
    \A j \in 1..Len(out) :
        out[j].k = "row" =>
            /\ PanesAre(out[j].b, ps.col_width)
            /\ 2 * ps.col_width + 3 <= ps.term_width

\* The same for the rows that are not of type Modified, at the output
\* widths at which two panes of DIFF_MIN_COLUMN cells have room.
C28_UnpairedRowsAtWideOutput ==
    \A j \in 1..Len(out) :
        (out[j].k = "row" /\ out[j].line.type # "MODIFIED") =>
            /\ PanesAre(out[j].b, ps.col_width)
            /\ ps.term_width >= 2 * DIFF_MIN_COLUMN + 3 => 2 * ps.col_width + 3 <= ps.term_width

\* A Context row has been printed at the output width MaxWide with
\* col_width cells on each side.
C28_Witness ==
    /\ ps.pc = "done"
    /\ ps.term_width = MaxWide
    /\ \E j \in 1..Len(out) :
          /\ out[j].k = "row"
          /\ out[j].line.type = "CONTEXT"
          /\ PanesAre(out[j].b, ps.col_width)

\* The left sides that rows has, in order: the line number and the text of
\* each row that has a left line number; and the right sides.
LeftSides(rows) ==
    LET js == {j \in 1..Len(rows) : rows[j].left_num > 0}
    IN  [n \in 1..Cardinality(js) |->
            <<rows[Kth(js, n)].left_num, rows[Kth(js, n)].left_content>>]

RightSides(rows) ==
    LET js == {j \in 1..Len(rows) : rows[j].right_num > 0}
    IN  [n \in 1..Cardinality(js) |->
            <<rows[Kth(js, n)].right_num, rows[Kth(js, n)].right_content>>]

\* The content lines of the hunk in the text whose prefix is c or a blank,
\* in order, each with the number it has counting from start and with its
\* sanitized text.
SourceSides(c, start) ==
    LET ks == {k \in 1..(Cardinality(LineStarts(text)) - 1) :
                  LineAt(text, Kth(LineStarts(text), k + 1))[1] \in {c, SP}}
    IN  [n \in 1..Cardinality(ks) |-> <<start + n - 1, SourceText(Kth(ks, n))>>]

\* C29: when the pairing loop has gone through a hunk, the left sides of
\* the rows it printed are, in order, the hunk's Context and Removed lines,
\* each once, and the right sides its Context and Added lines, each once,
\* with the numbers and texts of the source lines; the line numbers shown
\* on either side grow strictly down the hunk.
C29_EveryLineOnceInOrder ==
    AtHunkEnd =>
        /\ LeftSides(OutRows) = LeftSides(CurLines)
        /\ RightSides(OutRows) = RightSides(CurLines)
        /\ LeftSides(OutRows) = SourceSides(MINUS, ps.diff.hunks[ps.h].old_start)
        /\ RightSides(OutRows) = SourceSides(PLUS, ps.diff.hunks[ps.h].new_start)
        /\ \A m, n \in 1..Len(OutRows) :
               m < n =>
                   /\ (OutRows[m].left_num > 0 /\ OutRows[n].left_num > 0)
                          => OutRows[m].left_num < OutRows[n].left_num
                   /\ (OutRows[m].right_num > 0 /\ OutRows[n].right_num > 0)
                          => OutRows[m].right_num < OutRows[n].right_num

\* The hunk "-a", "-b", "+c", " d" has been printed as a Modified row with
\* lines 5 and 7, a Removed row with line 6 and a Context row with lines 7
\* and 8.
C29_Witness ==
    /\ AtHunkEnd
    /\ Len(OutRows) = 3
    /\ LeftSides(OutRows) = <<<<5, <<LOWER_A>>>>, <<6, <<LOWER_A + 1>>>>, <<7, <<LOWER_A + 3>>>>>>
    /\ RightSides(OutRows) = <<<<7, <<LOWER_A + 2>>>>, <<8, <<LOWER_A + 3>>>>>>

(***************************************************************************)
(* Specification of show_side_by_side_diff on very wide terminals.  ws_col *)
(* is an unsigned short (line 99), so get_terminal_width reports up to     *)
(* USHRT_MAX columns; the widths around the size of a pane buffer and the  *)
(* largest one are taken.                                                  *)
(***************************************************************************)
USHRT_MAX == 65535
FirstWideCol == 4096
LastWideCol == 4112
MaxWideLines == 2

WideCols == (FirstWideCol..LastWideCol) \cup {USHRT_MAX}

WideSettings ==
    {[null |-> FALSE, use_colors |-> FALSE, show_line_numbers |-> n, terminal_width |-> 0] :
        n \in BOOLEAN}

WideTexts ==
    {JoinLines(<<L_HUNK2>> \o [k \in 1..Len(ts) |-> RowLine(<<ts[k], FALSE>>, k)]) :
        ts \in SeqsUpTo({MINUS, PLUS, SP}, MaxWideLines)}

InitWide ==
    /\ text \in WideTexts
    /\ settings \in WideSettings
    /\ ws_col \in WideCols
    /\ ps = ShowStart
    /\ out = <<>>
    /\ IdleHeap /\ IdleSan /\ IdleHH /\ IdleFit /\ IdleThr

SpecWide == InitWide /\ [][NextPair]_vars

\* C30: whatever the terminal reports (1..65535 columns), the text
\* fit_to_width writes into a pane buffer, padding and terminator included,
\* fits the buffer's DIFF_MAX_LINE_LEN * 2 bytes (no row is a write outside
\* a pane buffer), and the content width passed to fit_to_width is at
\* least 3.
C30_PaneBuffersHold ==
    /\ ps.pc \notin PaneOutcomes
    /\ ps.pc = "rows" =>
          ContentWidth(ps.col_width, Settings.show_line_numbers) >= 3

\* The second half by itself: the content width is never below 3.
C30_ContentWidthAtLeast3 ==
    ps.pc = "rows" => ContentWidth(ps.col_width, Settings.show_line_numbers) >= 3

\* The first half holds exactly while the content width is below the size
\* of a pane buffer: every printed pane text then fits with its terminator,
\* and a write outside a pane buffer happens only at a content width of
\* PaneBufSize or more.
C30_FitsBelowBufferSize ==
    /\ ps.pc \in PaneOutcomes =>
          ContentWidth(ps.col_width, Settings.show_line_numbers) >= PaneBufSize
    /\ \A j \in 1..Len(out) :
          out[j].k = "row" =>
              LET cw == ContentWidth(ps.col_width, Settings.show_line_numbers)
              IN  /\ Len(LeftBuf(out[j].line, cw)) + 1 <= PaneBufSize
                  /\ Len(RightBuf(out[j].line, cw)) + 1 <= PaneBufSize

\* A terminal of 4101 columns without gutters: the content width is 2048
\* and the row's text and terminator need 2049 bytes.
C30_Witness ==
    /\ ps.pc \in PaneOutcomes
    /\ ps.term_width = 2 * PaneBufSize + 5
    /\ ~Settings.show_line_numbers
    /\ ContentWidth(ps.col_width, Settings.show_line_numbers) = PaneBufSize

(***************************************************************************)
(* Specification of parse_unified_diff called by NumThreads threads at     *)
(* once, each on its own text.  A step is one call's work between two      *)
(* strtok calls; strtok's save pointer is the one static of the process.   *)
(***************************************************************************)
NumThreads == 2

Threads == 1..NumThreads

ConcTexts == {JoinLines(<<L_HUNK, L_DEL>>), JoinLines(<<L_HUNK2, L_ADD, L_CTX>>), JoinLines(<<L_PLAIN>>)}

ConcFrame == UNCHANGED <<san, hh, fit, text, settings, ws_col, ps, out>>

\* Lines 286-307
ConcBegin(t) ==
    /\ thr[t].pc = "start"
    /\ \E r \in {ParseBegin(thr[t], heap, thr[t].text)} :
          /\ thr' = [thr EXCEPT ![t] = [r.inv EXCEPT !.pc = "parse"]]
          /\ heap' = r.heap
          /\ strtok_save' = r.save
    /\ ConcFrame

\* Lines 308-382.  A token or a save pointer into a freed copy is a use
\* after free: the freed bytes may still be there, or the access may fault.
ConcLine(t) ==
    /\ thr[t].pc = "parse"
    /\ thr[t].line # NullPtr
    /\ \E r \in {ParseIter(thr[t], heap, strtok_save)} :
          \/ /\ r.ub \in {"none", "uaf"}
             /\ thr' = [thr EXCEPT ![t] = r.inv]
             /\ heap' = r.heap
             /\ strtok_save' = r.save
          \/ /\ r.ub \in {"oob", "uaf"}
             /\ \E o \in UBOutcomes : thr' = [thr EXCEPT ![t].pc = o]
             /\ UNCHANGED <<heap, strtok_save>>
    /\ ConcFrame

\* Lines 384-385
ConcEnd(t) ==
    /\ thr[t].pc = "parse"
    /\ thr[t].line = NullPtr
    /\ heap' = ParseFree(thr[t], heap)
    /\ thr' = [thr EXCEPT ![t].pc = "done"]
    /\ UNCHANGED strtok_save
    /\ ConcFrame

InitConc ==
    /\ thr \in [Threads -> {[ZeroInv EXCEPT !.text = x] : x \in ConcTexts}]
    /\ IdleHeap /\ IdleShow /\ IdleSan /\ IdleHH /\ IdleFit

NextConc == \E t \in Threads : ConcBegin(t) \/ ConcLine(t) \/ ConcEnd(t)

SpecConc == InitConc /\ [][NextConc]_vars

\* C10: a call of parse_unified_diff that runs while other threads run
\* theirs returns the FileDiff (hunks, rows, counters) it returns when it
\* runs alone on its text.
C10_ConcurrentParseIsIsolated ==
    \A t \in Threads :
        thr[t].pc = "done" => thr[t].diff = ParseAlone(thr[t].text).diff

====
